---- MODULE Spec2Model ----
(***************************************************************************)
(* Sheriff CLI: command dispatch (main), plugin lookup and execution       *)
(* (findPluginByName, validatePlugin, executePlugin), the error wrappers   *)
(* (handleError, handleErrorAsync) and the import-graph traversal used by  *)
(* the verification run.                                                   *)
(*                                                                         *)
(* JavaScript strings are sequences of one-character strings, so that      *)
(* trim(), template literals and substring tests are computed and not      *)
(* assumed.                                                                *)
(***************************************************************************)
EXTENDS Integers, Sequences, FiniteSets, TLC

\* ------------------------------------------------------------------------
\* String literals of the source
\* ------------------------------------------------------------------------
S_init ==
  <<"i","n","i","t">>
S_verify ==
  <<"v","e","r","i","f","y">>
S_list ==
  <<"l","i","s","t">>
S_export ==
  <<"e","x","p","o","r","t">>
S_version ==
  <<"v","e","r","s","i","o","n">>
S_junit ==
  <<"j","u","n","i","t">>
S_blank ==
  <<" ">>
S_argFormat ==
  <<"-","-","f","o","r","m","a","t","=","x","m","l">>
S_argOutput ==
  <<"o","u","t","p","u","t",".","x","m","l">>
S_pluginFailed ==
  <<"P","l","u","g","i","n"," ","f","a","i","l","e","d","!">>
S_nixGeht ==
  <<"n","i","x"," ","g","e","h","t">>
S_description ==
  <<"G","e","n","e","r","a","t","e"," ","J","U","n","i","t"," ","r","e","p",
       "o","r","t","s">>
S_missingName ==
  <<"P","l","u","g","i","n"," ","i","s"," ","m","i","s","s","i","n","g"," ",
       "a"," ","v","a","l","i","d"," ","'","n","a","m","e","'"," ","p","r",
       "o","p","e","r","t","y">>
S_missingExecute ==
  <<"P","l","u","g","i","n"," ","i","s"," ","m","i","s","s","i","n","g"," ",
       "a","n"," ","'","e","x","e","c","u","t","e","'"," ","m","e","t","h",
       "o","d">>
S_pluginQuote ==
  <<"P","l","u","g","i","n"," ","'">>
S_notFoundTail ==
  <<"'"," ","n","o","t"," ","f","o","u","n","d","."," ","M","a","k","e"," ",
       "s","u","r","e"," ","t","o"," ","r","e","g","i","s","t","e","r"," ",
       "t","h","e"," ","p","l","u","g","i","n"," ","i","n"," ","y","o","u",
       "r"," ","s","h","e","r","i","f","f",".","c","o","n","f","i","g",".",
       "t","s"," ","p","l","u","g","i","n","s"," ","a","r","r","a","y",".">>
S_invalidHead ==
  <<"I","n","v","a","l","i","d"," ","p","l","u","g","i","n"," ","c","o","n",
       "f","i","g","u","r","a","t","i","o","n",":"," ">>
S_invalidTail ==
  <<"."," ","P","l","u","g","i","n","s"," ","m","u","s","t"," ","h","a","v",
       "e"," ","a"," ","'","n","a","m","e","'"," ","p","r","o","p","e","r",
       "t","y"," ","a","n","d"," ","a","n"," ","'","e","x","e","c","u","t",
       "e","'"," ","m","e","t","h","o","d",".">>
S_failedDuring ==
  <<"'"," ","f","a","i","l","e","d"," ","d","u","r","i","n","g"," ","e","x",
       "e","c","u","t","i","o","n",":"," ">>
S_invalidPath ==
  <<"i","n","v","a","l","i","d"," ","p","a","t","h"," ","m","a","p","p","i",
       "n","g"," ","d","e","t","e","c","t","e","d",":"," ","s","h","e","r",
       "i","f","f",":"," ","s","r","c","/","m","a","i","n",".","t","s",".",
       " ","P","l","e","a","s","e"," ","v","e","r","i","f","y"," ","t","h",
       "a","t"," ","t","h","e"," ","p","a","t","h"," ","e","x","i","s","t",
       "s",".">>
S_helpTitleHead ==
  <<"S","h","e","r","i","f","f"," ","(">>
S_helpTitleTail ==
  <<")"," ","-"," ","M","o","d","u","l","a","r","i","t","y"," ","f","o","r",
       " ","T","y","p","e","S","c","r","i","p","t"," ","P","r","o","j","e",
       "c","t","s">>
S_helpCommands ==
  <<"C","o","m","m","a","n","d","s",":">>
S_helpExport ==
  <<" "," ","s","h","e","r","i","f","f"," ","e","x","p","o","r","t"," ","[",
       "m","a","i","n",".","t","s","]",":"," ","E","x","p","o","r","t","s",
       " ","t","h","e"," ","p","r","o","j","e","c","t","'","s",","," ","a",
       "l","o","n","g"," ","i","t","s"," ","d","e","p","e","n","d","e","n",
       "c","i","e","s"," ","a","n","d"," ","m","o","d","u","l","e","s"," ",
       "i","n"," ","j","s","o","n",".">>
S_helpInit ==
  <<" "," ","s","h","e","r","i","f","f"," ","i","n","i","t"," ","[","m","a",
       "i","n",".","t","s","]",":"," ","i","n","i","t","i","a","l","i","z",
       "e","s"," ","S","h","e","r","i","f","f"," ","b","y"," ","a","d","d",
       "i","n","g"," ","a"," ","s","h","e","r","i","f","f",".","c","o","n",
       "f","i","g",".","t","s",".">>
S_helpList ==
  <<" "," ","s","h","e","r","i","f","f"," ","l","i","s","t"," ","[","m","a",
       "i","n",".","t","s","]",":"," ","l","i","s","t","s"," ","t","h","e",
       " ","c","u","r","r","e","n","t"," ","m","o","d","u","l","e","s"," ",
       "o","f"," ","t","h","e"," ","p","r","o","j","e","c","t",".">>
S_helpVerify ==
  <<" "," ","s","h","e","r","i","f","f"," ","v","e","r","i","f","y"," ","[",
       "m","a","i","n",".","t","s","]",":"," ","r","u","n","s"," ","t","h",
       "e"," ","v","e","r","i","f","i","c","a","t","i","o","n"," ","p","r",
       "o","c","e","s","s"," ","f","o","r"," ","t","h","e"," ","p","r","o",
       "j","e","c","t",".">>
S_helpVersion ==
  <<" "," ","s","h","e","r","i","f","f"," ","v","e","r","s","i","o","n",":",
       " ","p","r","i","n","t","s"," ","o","u","t"," ","t","h","e"," ","c",
       "u","r","r","e","n","t"," ","v","e","r","s","i","o","n",".">>
S_helpPlugins ==
  <<"P","l","u","g","i","n","s",":">>
S_helpSheriff ==
  <<" "," ","s","h","e","r","i","f","f"," ">>
S_colonSpace ==
  <<":"," ">>
S_helpOptional ==
  <<"[","m","a","i","n",".","t","s","]"," ","i","s"," ","o","p","t","i","o",
       "n","a","l"," ","i","f"," ","a"," ","s","h","e","r","i","f","f",".",
       "c","o","n","f","i","g",".","t","s"," ","w","i","t","h"," ","a","n",
       " ","e","n","t","r","y","F","i","l","e"," ","p","r","o","p","e","r",
       "t","y"," ","i","s"," ","i","n"," ","t","h","e"," ","c","u","r","r",
       "e","n","t"," ","p","a","t","h",".">>
S_helpMoreInfo ==
  <<"F","o","r"," ","m","o","r","e"," ","i","n","f","o","r","m","a","t","i",
       "o","n",","," ","v","i","s","i","t",":"," ","h","t","t","p","s",":",
       "/","/","g","i","t","h","u","b",".","c","o","m","/","s","o","f","t",
       "a","r","c","-","c","o","n","s","u","l","t","i","n","g","/","s","h",
       "e","r","i","f","f">>
S_packageVersion ==
  <<"0",".","0",".","1">>

\* ------------------------------------------------------------------------
\* Bounds
\* ------------------------------------------------------------------------
MaxPlugins == 2

MaxFiles == 3

MaxImports == 2

\* ------------------------------------------------------------------------
\* String primitives
\* ------------------------------------------------------------------------
IsWhitespace(c) ==
  c = " "

RECURSIVE TrimStart(_)
TrimStart(s) ==
  IF s = << >> THEN s
  ELSE IF IsWhitespace(Head(s)) THEN TrimStart(Tail(s)) ELSE s

RECURSIVE TrimEnd(_)
TrimEnd(s) ==
  IF s = << >> THEN s
  ELSE IF IsWhitespace(s[Len(s)]) THEN TrimEnd(SubSeq(s, 1, Len(s) - 1)) ELSE s

\* String.prototype.trim
Trim(s) ==
  TrimEnd(TrimStart(s))

\* String.prototype.includes / toContain on strings
Includes(s, sub) ==
  \E i \in 1..(Len(s) - Len(sub) + 1) : SubSeq(s, i, i + Len(sub) - 1) = sub

Digit(d) ==
  CASE d = 0 -> "0" [] d = 1 -> "1" [] d = 2 -> "2" [] d = 3 -> "3"
    [] d = 4 -> "4" [] d = 5 -> "5" [] d = 6 -> "6" [] d = 7 -> "7"
    [] d = 8 -> "8" [] d = 9 -> "9"

RECURSIVE NatToString(_)
NatToString(n) ==
  IF n < 10 THEN <<Digit(n)>> ELSE NatToString(n \div 10) \o <<Digit(n % 10)>>

\* ------------------------------------------------------------------------
\* Thrown values and the error classes
\* ------------------------------------------------------------------------
NoError ==
  [type |-> "none", code |-> "", message |-> << >>, num |-> 0]

\* new Error(message)
NewError(message) ==
  [type |-> "Error", code |-> "", message |-> message, num |-> 0]

\* class UserError extends Error
UserError(code, message) ==
  [type |-> "UserError", code |-> code, message |-> message, num |-> 0]

\* throw 'text'
ThrownString(s) ==
  [type |-> "string", code |-> "", message |-> s, num |-> 0]

\* throw 42
ThrownNumber(n) ==
  [type |-> "number", code |-> "", message |-> << >>, num |-> n]

\* error instanceof Error
InstanceOfError(e) ==
  e.type \in {"Error", "UserError"}

\* error instanceof UserError
InstanceOfUserError(e) ==
  e.type = "UserError"

\* String(value)
String(v) ==
  CASE v.type = "string" -> v.message
    [] v.type = "number" -> NatToString(v.num)
    [] OTHER -> <<"E", "r", "r", "o", "r", ":", " ">> \o v.message

InvalidPathError ==
  UserError("SH-001", S_invalidPath)

PluginNotFoundError(pluginName) ==
  UserError("SH-013", S_pluginQuote \o pluginName \o S_notFoundTail)

PluginInvalidError(details) ==
  UserError("SH-014", S_invalidHead \o details \o S_invalidTail)

\* PluginExecutionError leaving the cause out of its message.
PluginExecutionError_noCause(pluginName, originalError) ==
  UserError("SH-015", S_pluginQuote \o pluginName \o S_failedDuring)

PluginExecutionError(pluginName, originalError) ==
  LET errorMessage ==
        IF InstanceOfError(originalError) THEN originalError.message
        ELSE String(originalError)
  IN  UserError("SH-015",
                S_pluginQuote \o pluginName \o S_failedDuring \o errorMessage)

\* ------------------------------------------------------------------------
\* Plugins and sheriff.config.ts
\* ------------------------------------------------------------------------
\* An absent array (plugins === undefined) and a present one.
Undefined ==
  [defined |-> FALSE, items |-> << >>]

Defined(items) ==
  [defined |-> TRUE, items |-> items]

PluginNames ==
  {<< >>, S_blank, S_verify, S_junit}

\* What the `execute` property of a registered entry is:
\*   "missing"      no execute function: the property is absent (a value of
\*                  another type fails the same typeof test)
\*   "resolve"      async function that completes
\*   "throwError"   plain function throwing new Error(...) when called
\*   "rejectError"  function returning Promise.reject(new Error(...))
\*   "rejectString" async function throwing a string
ExecuteKinds ==
  {"missing", "resolve", "throwError", "rejectError", "rejectString"}

\* Registered entries are objects with a string name; description optional.
PluginUniverse ==
  [name : PluginNames, execute : ExecuteKinds, description : {<< >>}]
    \cup {[name |-> S_junit, execute |-> "resolve",
           description |-> S_description]}

PluginArrays ==
  UNION {[1..n -> PluginUniverse] : n \in 0..MaxPlugins}

\* typeof pluginObj['execute']
TypeofExecute(plugin) ==
  IF plugin.execute = "missing" THEN "undefined" ELSE "function"

\* The value execute throws synchronously when called (NoError: it returns).
ExecuteThrows(plugin) ==
  IF plugin.execute = "throwError" THEN NewError(S_pluginFailed) ELSE NoError

\* The reason the promise returned by execute rejects with (NoError: it
\* fulfils).
ExecuteRejects(plugin) ==
  CASE plugin.execute = "rejectError" -> NewError(S_pluginFailed)
    [] plugin.execute = "rejectString" -> ThrownString(S_nixGeht)
    [] OTHER -> NoError

\* The state of sheriff.config.ts in the working directory: absent, or
\* present with or without a plugins array; parseConfig may throw on a
\* file that is present, also on one that declares a plugin.
ConfigStates ==
  {[exists |-> FALSE, parses |-> FALSE, plugins |-> Undefined],
   [exists |-> TRUE, parses |-> FALSE, plugins |-> Undefined],
   [exists |-> TRUE, parses |-> TRUE, plugins |-> Undefined]}
    \cup {[exists |-> TRUE, parses |-> TRUE, plugins |-> Defined(a)] :
            a \in PluginArrays}
    \cup {[exists |-> TRUE, parses |-> FALSE, plugins |-> Defined(<<p>>)] :
            p \in PluginUniverse}

\* getPlugins without the try statement around parseConfig: the plugins of
\* a file that does not parse are returned all the same.
getPlugins_ignoreParseError(cfg) ==
  IF cfg.exists /\ cfg.plugins.defined THEN cfg.plugins.items ELSE << >>

getPlugins_reversed(cfg) ==
  IF cfg.exists /\ cfg.parses /\ cfg.plugins.defined
    THEN [i \in 1..Len(cfg.plugins.items) |->
            cfg.plugins.items[Len(cfg.plugins.items) + 1 - i]]
    ELSE << >>

getPlugins(cfg) ==
  IF ~cfg.exists THEN << >>
  ELSE IF ~cfg.parses THEN << >>
  ELSE IF cfg.plugins.defined THEN cfg.plugins.items ELSE << >>

\* validatePlugin without the check of the name.
validatePlugin_noNameCheck(plugin) ==
  IF TypeofExecute(plugin) # "function"
    THEN PluginInvalidError(S_missingExecute)
  ELSE NoError

\* validatePlugin: the error it throws, NoError when it returns.  Every
\* registered entry is an object with a string as name, so the checks left
\* are the one of a blank name and the one of the type of execute.
validatePlugin(plugin) ==
  IF Trim(plugin.name) = << >>
    THEN PluginInvalidError(S_missingName)
  ELSE IF TypeofExecute(plugin) # "function"
    THEN PluginInvalidError(S_missingExecute)
  ELSE NoError

\* The find callback skipping malformed plugins for good.
FindCallback_skipInvalid(p, name) ==
  IF validatePlugin(p) = NoError THEN p.name = name ELSE FALSE

\* The callback of plugins.find in findPluginByName.
FindCallback(p, name) ==
  IF validatePlugin(p) = NoError THEN p.name = name ELSE p.name = name

\* Array.prototype.find, given the indices of the elements the callback
\* accepts: the index of the first of them, 0 when there is none.
FindIndex(hits) ==
  IF hits = {} THEN 0 ELSE CHOOSE i \in hits : \A j \in hits : i <= j

\* The indices of the elements of the array the find callback of
\* findPluginByName accepts.
FindHits(items, name) ==
  {i \in 1..Len(items) : FindCallback(items[i], name)}

\* findPluginByName without the guard for a missing or empty array:
\* `plugins.find` on undefined is a TypeError.
findPluginByName_noGuard(name, plugins) ==
  IF ~plugins.defined
    THEN [err |-> NewError(<<"T", "y", "p", "e", "E", "r", "r", "o", "r">>),
          index |-> 0]
  ELSE LET index == FindIndex(FindHits(plugins.items, name))
       IN  IF index = 0
             THEN [err |-> PluginNotFoundError(name), index |-> 0]
           ELSE IF validatePlugin(plugins.items[index]) # NoError
             THEN [err |-> validatePlugin(plugins.items[index]), index |-> 0]
           ELSE [err |-> NoError, index |-> index]

\* findPluginByName: [err |-> thrown error or NoError, index |-> the plugin].
findPluginByName(name, plugins) ==
  IF ~plugins.defined \/ Len(plugins.items) = 0
    THEN [err |-> PluginNotFoundError(name), index |-> 0]
  ELSE LET index == FindIndex(FindHits(plugins.items, name))
       IN  IF index = 0
             THEN [err |-> PluginNotFoundError(name), index |-> 0]
           ELSE IF validatePlugin(plugins.items[index]) # NoError
             THEN [err |-> validatePlugin(plugins.items[index]), index |-> 0]
           ELSE [err |-> NoError, index |-> index]

\* createPluginAPI: the object handed to execute, by the function behind
\* each property.
createPluginAPI ==
  [verify |-> "verifyForPlugin", getProjectData |-> "getProjectDataForPlugin",
   getConfig |-> "getConfigForPlugin", log |-> "cli.log",
   logError |-> "cli.logError"]

\* ------------------------------------------------------------------------
\* Promises
\* ------------------------------------------------------------------------
NoPromise ==
  [state |-> "none", err |-> NoError]

Pending ==
  [state |-> "pending", err |-> NoError]

Fulfilled ==
  [state |-> "fulfilled", err |-> NoError]

Rejected(e) ==
  [state |-> "rejected", err |-> e]

Settled(p) ==
  p.state \in {"fulfilled", "rejected"}

\* The catch block of executePlugin rethrowing what it caught.
executePluginCatch_rethrow(pluginName, error) ==
  error

\* The catch block of executePlugin: the error it throws for a failure of
\* execute.
executePluginCatch(pluginName, error) ==
  PluginExecutionError(
    pluginName,
    IF InstanceOfError(error) THEN error ELSE ThrownString(String(error)))

\* ExecuteCall handing over args.slice(1).
ExecuteCall_sliced(index, args) ==
  [index |-> index, args |-> IF args = << >> THEN << >> ELSE Tail(args),
   api |-> createPluginAPI]

\* plugin.execute(args, api) as executePlugin calls it on the plugin found.
ExecuteCall(index, args) ==
  [index |-> index, args |-> args, api |-> createPluginAPI]

\* executePlugin calling execute without await: its own promise fulfils
\* while the promise of execute is pending.
executePluginSync_noAwait(pluginName, args, plugins) ==
  LET found == findPluginByName(pluginName, plugins)
  IN  IF found.err # NoError
        THEN [calls |-> << >>, plugin |-> NoPromise,
              own |-> Rejected(found.err)]
      ELSE
        LET plugin == plugins.items[found.index]
            call == ExecuteCall(found.index, args)
        IN  IF validatePlugin(plugin) # NoError
              THEN [calls |-> << >>, plugin |-> NoPromise,
                    own |-> Rejected(validatePlugin(plugin))]
            ELSE IF ExecuteThrows(plugin) # NoError
              THEN [calls |-> <<call>>, plugin |-> NoPromise,
                    own |-> Rejected(executePluginCatch(
                              pluginName, ExecuteThrows(plugin)))]
            ELSE [calls |-> <<call>>, plugin |-> Pending, own |-> Fulfilled]

\* executePlugin up to its first suspension: the invocations of execute it
\* made, the promise execute returned and its own promise.
executePluginSync(pluginName, args, plugins) ==
  LET found == findPluginByName(pluginName, plugins)
  IN  IF found.err # NoError
        THEN [calls |-> << >>, plugin |-> NoPromise,
              own |-> Rejected(found.err)]
      ELSE
        LET plugin == plugins.items[found.index]
            call == ExecuteCall(found.index, args)
        IN  IF validatePlugin(plugin) # NoError
              THEN [calls |-> << >>, plugin |-> NoPromise,
                    own |-> Rejected(validatePlugin(plugin))]
            ELSE IF ExecuteThrows(plugin) # NoError
              THEN [calls |-> <<call>>, plugin |-> NoPromise,
                    own |-> Rejected(executePluginCatch(
                              pluginName, ExecuteThrows(plugin)))]
            ELSE [calls |-> <<call>>, plugin |-> Pending, own |-> Pending]

\* executePlugin resumed once the promise of execute has settled.
executePluginSettle(pluginName, pluginPromise) ==
  IF pluginPromise.state = "fulfilled" THEN Fulfilled
  ELSE Rejected(executePluginCatch(pluginName, pluginPromise.err))

\* ------------------------------------------------------------------------
\* The cli object: what the process wrote and how it ended
\* ------------------------------------------------------------------------
Log(text) ==
  [kind |-> "log", text |-> text]

LogError(text) ==
  [kind |-> "logError", text |-> text]

EndProcessOk ==
  [kind |-> "endProcessOk", text |-> << >>]

EndProcessError ==
  [kind |-> "endProcessError", text |-> << >>]

BUILTIN_COMMANDS ==
  {S_init, S_verify, S_list, S_export, S_version}

\* The first command-line argument: absent or a string.
NoCmd ==
  [defined |-> FALSE, value |-> << >>]

Cmd(s) ==
  [defined |-> TRUE, value |-> s]

\* isBuiltinCommand with `verify` missing from the set of built-ins.
isBuiltinCommand_noVerify(cmd) ==
  cmd.defined /\ cmd.value \in BUILTIN_COMMANDS \ {S_verify}

isBuiltinCommand(cmd) ==
  cmd.defined /\ cmd.value \in BUILTIN_COMMANDS

RECURSIVE HelpPluginLines(_)
HelpPluginLines(plugins) ==
  IF plugins = << >> THEN << >>
  ELSE LET plugin == Head(plugins)
           description ==
             IF plugin.description # << >>
               THEN S_colonSpace \o plugin.description ELSE << >>
       IN  <<Log(S_helpSheriff \o plugin.name \o description)>>
             \o HelpPluginLines(Tail(plugins))

\* showHelp: the lines it logs.
showHelp(plugins) ==
  <<Log(S_helpTitleHead \o S_packageVersion \o S_helpTitleTail),
    Log(<< >>), Log(S_helpCommands), Log(S_helpExport), Log(S_helpInit),
    Log(S_helpList), Log(S_helpVerify), Log(S_helpVersion)>>
    \o (IF Len(plugins) > 0
          THEN <<Log(<< >>), Log(S_helpPlugins)>> \o HelpPluginLines(plugins)
          ELSE << >>)
    \o <<Log(<< >>), Log(S_helpOptional), Log(S_helpMoreInfo)>>

\* handleErrorOutput: the line written to the error output.
handleErrorOutput(error) ==
  IF InstanceOfUserError(error) THEN LogError(error.message)
  ELSE IF InstanceOfError(error) THEN LogError(error.message)
  ELSE LogError(String(error))

\* handleError calling endProcessOk after the try statement instead of inside.
handleError_okAfterCatch(thrown) ==
  IF thrown = NoError THEN <<EndProcessOk>>
  ELSE <<handleErrorOutput(thrown), EndProcessError, EndProcessOk>>

\* handleError(fn) for a function that throws `thrown` (NoError: returns):
\* what it does after running fn.
handleError(thrown) ==
  IF thrown = NoError THEN <<EndProcessOk>>
  ELSE <<handleErrorOutput(thrown), EndProcessError>>

\* handleErrorAsync without the call of endProcessOk after `await fn()`.
handleErrorAsync_noOk(promise) ==
  IF promise.state = "fulfilled" THEN << >>
  ELSE <<handleErrorOutput(promise.err), EndProcessError>>

\* handleErrorAsync(fn) once `await fn()` is over with the given promise.
handleErrorAsync(promise) ==
  IF promise.state = "fulfilled" THEN <<EndProcessOk>>
  ELSE <<handleErrorOutput(promise.err), EndProcessError>>

\* handlePluginOrHelp up to its first suspension.
handlePluginOrHelp(cmd, args, plugins) ==
  IF ~cmd.defined
    THEN [logs |-> showHelp(plugins), calls |-> << >>, plugin |-> NoPromise,
          ep |-> NoPromise, own |-> Fulfilled]
  ELSE LET matchingPlugin ==
             FindIndex({i \in 1..Len(plugins) : plugins[i].name = cmd.value})
       IN  IF matchingPlugin # 0
             THEN LET ep == executePluginSync(cmd.value, args, Defined(plugins))
                  IN  [logs |-> << >>, calls |-> ep.calls,
                       plugin |-> ep.plugin, ep |-> ep.own, own |-> Pending]
           ELSE [logs |-> showHelp(plugins), calls |-> << >>,
                 plugin |-> NoPromise, ep |-> NoPromise, own |-> Fulfilled]

\* What a wrapped function can do: return, or throw one of these.
ThrownValues ==
  {NewError(S_nixGeht), InvalidPathError, ThrownString(S_nixGeht),
   ThrownNumber(42)}

\* The built-in commands init, verify, list and export either return or
\* throw an error.
BuiltinOutcomes ==
  {NoError, NewError(S_nixGeht), InvalidPathError}

ArgLists ==
  {<< >>, <<S_argFormat>>, <<S_argOutput, S_argFormat>>}

Cmds ==
  {NoCmd} \cup {Cmd(s) : s \in BUILTIN_COMMANDS \cup PluginNames}

\* ------------------------------------------------------------------------
\* State of one CLI process
\* ------------------------------------------------------------------------
VARIABLES
  config,         \* sheriff.config.ts as found in the working directory
  pc,             \* "idle", "awaiting" (suspended at an await) or "done"
  call,           \* the call that started the run
  returned,       \* the called function has returned to its caller
  out,            \* calls made on the cli object, in order
  executed,       \* invocations of execute: plugin index, args, api
  fnRuns,         \* how often the function wrapped by handleError* has run
  pluginPromise,  \* the promise returned by plugin.execute
  epPromise,      \* the promise returned by executePlugin
  fnPromise       \* the promise returned by the wrapped async function

\* State of one analysis run over the import graph
VARIABLES
  gpc,            \* "off", "build", "traverse" or "done"
  fileInfos,      \* the FileInfo arena: the imports of every visited file
  parsed,         \* the files parsed by the builder, in order
  buildStack,     \* the recursion of the graph builder
  travStack,      \* the recursion of the traversal
  traversed,      \* the files the traversal has yielded
  yielded         \* what the traversal yielded, in order

\* State of one call of the plugin API or of a checker
VARIABLES
  apiResult       \* what the call returned or threw

cliVars ==
  <<config, pc, call, returned, out, executed, fnRuns, pluginPromise,
    epPromise, fnPromise>>

graphVars ==
  <<gpc, fileInfos, parsed, buildStack, travStack, traversed, yielded>>

apiVars ==
  <<apiResult>>

vars ==
  <<cliVars, graphVars, apiVars>>

\* No analysis run is going on.
GraphOff ==
  /\ gpc = "off"
  /\ fileInfos = << >>
  /\ parsed = << >>
  /\ buildStack = << >>
  /\ travStack = << >>
  /\ traversed = {}
  /\ yielded = << >>

\* No call of the plugin API has been made.
NoResult ==
  [threw |-> FALSE, err |-> NoError, value |-> << >>]

NoCall ==
  [op |-> "none", cmd |-> NoCmd, args |-> << >>, plugins |-> Undefined,
   sync |-> TRUE, thrown |-> NoError]

Init ==
  /\ config \in ConfigStates
  /\ pc = "idle"
  /\ call = NoCall
  /\ returned = FALSE
  /\ out = << >>
  /\ executed = << >>
  /\ fnRuns = 0
  /\ pluginPromise = NoPromise
  /\ epPromise = NoPromise
  /\ fnPromise = NoPromise
  /\ GraphOff
  /\ apiResult = NoResult

\* version(): prints the package version.
version ==
  <<Log(S_packageVersion)>>

\* main(...argv) with argv = [cmd, ...args], up to its return.  `outcome` is
\* what the built-in command does when cmd names one.
main(cmd, args, outcome) ==
  /\ pc = "idle"
  /\ returned' = TRUE
  /\ IF isBuiltinCommand(cmd)
       THEN /\ call' = [NoCall EXCEPT !.op = "main", !.cmd = cmd,
                                      !.args = args, !.thrown = outcome]
            /\ IF cmd.value = S_version
                 THEN /\ out' = out \o version
                      /\ fnRuns' = fnRuns
                 ELSE /\ out' = out \o handleError(outcome)
                      /\ fnRuns' = fnRuns + 1
            /\ pc' = "done"
            /\ UNCHANGED <<executed, pluginPromise, epPromise, fnPromise>>
       ELSE LET plugins == getPlugins(config)
                h == handlePluginOrHelp(cmd, args, plugins)
            IN  /\ call' = [NoCall EXCEPT !.op = "main", !.cmd = cmd,
                                          !.args = args,
                                          !.plugins = Defined(plugins)]
                /\ fnRuns' = fnRuns + 1
                /\ out' = out \o h.logs
                /\ executed' = executed \o h.calls
                /\ pluginPromise' = h.plugin
                /\ epPromise' = h.ep
                /\ fnPromise' = h.own
                /\ pc' = "awaiting"
  /\ UNCHANGED config
  /\ UNCHANGED <<graphVars, apiVars>>

\* A direct call executePlugin(pluginName, args, plugins), up to its return.
executePlugin(pluginName, args, plugins) ==
  /\ pc = "idle"
  /\ LET ep == executePluginSync(pluginName, args, plugins)
     IN  /\ executed' = executed \o ep.calls
         /\ pluginPromise' = ep.plugin
         /\ epPromise' = ep.own
         /\ pc' = IF Settled(ep.own) THEN "done" ELSE "awaiting"
  /\ call' = [NoCall EXCEPT !.op = "executePlugin", !.cmd = Cmd(pluginName),
                            !.args = args, !.plugins = plugins]
  /\ returned' = TRUE
  /\ UNCHANGED <<config, out, fnRuns, fnPromise>>
  /\ UNCHANGED <<graphVars, apiVars>>

\* The promise returned by plugin.execute settles.
PluginSettles ==
  /\ pc = "awaiting"
  /\ pluginPromise.state = "pending"
  /\ LET plugin == call.plugins.items[executed[Len(executed)].index]
     IN  pluginPromise' =
           IF ExecuteRejects(plugin) = NoError THEN Fulfilled
           ELSE Rejected(ExecuteRejects(plugin))
  /\ UNCHANGED <<config, pc, call, returned, out, executed, fnRuns,
                 epPromise, fnPromise>>
  /\ UNCHANGED <<graphVars, apiVars>>

\* executePlugin continues after `await plugin.execute(args, api)`.
executePluginResume ==
  /\ pc = "awaiting"
  /\ epPromise.state = "pending"
  /\ Settled(pluginPromise)
  /\ epPromise' = executePluginSettle(call.cmd.value, pluginPromise)
  /\ pc' = IF call.op = "executePlugin" THEN "done" ELSE pc
  /\ UNCHANGED <<config, call, returned, out, executed, fnRuns,
                 pluginPromise, fnPromise>>
  /\ UNCHANGED <<graphVars, apiVars>>

\* handlePluginOrHelp continues after `await executePlugin(...)`.
handlePluginOrHelpResume ==
  /\ pc = "awaiting"
  /\ call.op = "main"
  /\ fnPromise.state = "pending"
  /\ Settled(epPromise)
  /\ fnPromise' = epPromise
  /\ UNCHANGED <<config, pc, call, returned, out, executed, fnRuns,
                 pluginPromise, epPromise>>
  /\ UNCHANGED <<graphVars, apiVars>>

\* handleErrorAsync continues after `await fn()`.
handleErrorAsyncResume ==
  /\ pc = "awaiting"
  /\ call.op \in {"main", "handleErrorAsync"}
  /\ Settled(fnPromise)
  /\ out' = out \o handleErrorAsync(fnPromise)
  /\ pc' = "done"
  /\ UNCHANGED <<config, call, returned, executed, fnRuns, pluginPromise,
                 epPromise, fnPromise>>
  /\ UNCHANGED <<graphVars, apiVars>>

\* A direct call handleError(fn) with fn throwing `thrown` (NoError: fn
\* returns).
CallHandleError(thrown) ==
  /\ pc = "idle"
  /\ call' = [NoCall EXCEPT !.op = "handleError", !.thrown = thrown]
  /\ fnRuns' = fnRuns + 1
  /\ out' = out \o handleError(thrown)
  /\ returned' = TRUE
  /\ pc' = "done"
  /\ UNCHANGED <<config, executed, pluginPromise, epPromise, fnPromise>>
  /\ UNCHANGED <<graphVars, apiVars>>

\* A direct call handleErrorAsync(fn), up to its return.  fn either fails
\* synchronously when called (sync) or returns a promise that settles later.
CallHandleErrorAsync(sync, thrown) ==
  /\ pc = "idle"
  /\ call' = [NoCall EXCEPT !.op = "handleErrorAsync", !.sync = sync,
                            !.thrown = thrown]
  /\ fnRuns' = fnRuns + 1
  /\ IF sync /\ thrown # NoError
       THEN /\ out' = out \o <<handleErrorOutput(thrown), EndProcessError>>
            /\ fnPromise' = fnPromise
            /\ pc' = "done"
       ELSE /\ out' = out
            /\ fnPromise' = IF sync THEN Fulfilled ELSE Pending
            /\ pc' = "awaiting"
  /\ returned' = TRUE
  /\ UNCHANGED <<config, executed, pluginPromise, epPromise>>
  /\ UNCHANGED <<graphVars, apiVars>>

\* The promise returned by the function wrapped by handleErrorAsync settles.
FnSettles ==
  /\ pc = "awaiting"
  /\ call.op = "handleErrorAsync"
  /\ fnPromise.state = "pending"
  /\ fnPromise' = IF call.thrown = NoError THEN Fulfilled
                  ELSE Rejected(call.thrown)
  /\ UNCHANGED <<config, pc, call, returned, out, executed, fnRuns,
                 pluginPromise, epPromise>>
  /\ UNCHANGED <<graphVars, apiVars>>

Next ==
  \/ \E cmd \in Cmds, args \in ArgLists, outcome \in BuiltinOutcomes :
       main(cmd, args, outcome)
  \/ \E name \in PluginNames, args \in ArgLists,
        plugins \in {Undefined, Defined(getPlugins(config))} :
       executePlugin(name, args, plugins)
  \/ PluginSettles
  \/ executePluginResume
  \/ handlePluginOrHelpResume
  \/ handleErrorAsyncResume
  \/ \E thrown \in {NoError} \cup ThrownValues : CallHandleError(thrown)
  \/ \E sync \in BOOLEAN, thrown \in {NoError} \cup ThrownValues :
       CallHandleErrorAsync(sync, thrown)
  \/ FnSettles

Spec ==
  Init /\ [][Next]_vars

\* ------------------------------------------------------------------------
\* Properties of the command dispatch
\* ------------------------------------------------------------------------
\* The plugins array the call in progress works on.
CallPlugins ==
  call.plugins.items

\* Indices of the registered plugins named like the requested command.
Named ==
  {i \in 1..Len(CallPlugins) : CallPlugins[i].name = call.cmd.value}

\* The first registered plugin named like the requested command.
FirstNamed ==
  CHOOSE i \in Named : \A j \in Named : i <= j

\* A plugin with a non-blank name and a function as execute.
WellFormed(p) ==
  /\ \E k \in 1..Len(p.name) : p.name[k] # " "
  /\ p.execute \in {"resolve", "throwError", "rejectError", "rejectString"}

IsSheriffPluginAPI(api) ==
  DOMAIN api = {"verify", "getProjectData", "getConfig", "log", "logError"}

CountKind(kind) ==
  Cardinality({i \in DOMAIN out : out[i].kind = kind})

ByMain ==
  call.op = "main"

PluginCommand ==
  /\ ByMain
  /\ call.cmd.defined
  /\ call.cmd.value \notin {S_init, S_verify, S_list, S_export, S_version}
  /\ Named # {}

\* C2: a built-in command never invokes the execute method of any plugin,
\* also when a registered plugin carries the name of the command.
C2_BuiltinPrecedence ==
  (/\ ByMain
   /\ call.cmd.defined
   /\ call.cmd.value \in {S_init, S_verify, S_list, S_export, S_version})
    => executed = << >>

\* C2 witness: `sheriff verify` has run to its end while a well-formed
\* plugin named verify is registered.
C2_Witness ==
  /\ ByMain
  /\ pc = "done"
  /\ call.cmd = Cmd(S_verify)
  /\ \E i \in 1..Len(getPlugins(config)) :
       /\ getPlugins(config)[i].name = S_verify
       /\ getPlugins(config)[i].execute = "resolve"

\* C3 as stated: a command that is not built-in and names a registered
\* plugin has that plugin's execute invoked exactly once, with the remaining
\* arguments and the API object.
C3_Original ==
  PluginCommand =>
    /\ Len(executed) = 1
    /\ CallPlugins[executed[1].index].name = call.cmd.value
    /\ executed[1].args = call.args
    /\ IsSheriffPluginAPI(executed[1].api)

\* C3: for a command that is not built-in and names a registered plugin, the
\* first registered plugin of that name decides: when it is well-formed its
\* execute is invoked exactly once with the remaining arguments in order and
\* the API object, and no other execute is invoked; when it is malformed no
\* execute is invoked at all.
C3_PluginDispatch ==
  PluginCommand =>
    IF WellFormed(CallPlugins[FirstNamed])
      THEN /\ Len(executed) = 1
           /\ executed[1].index = FirstNamed
           /\ executed[1].args = call.args
           /\ IsSheriffPluginAPI(executed[1].api)
      ELSE executed = << >>

\* C3 witness: the second of two plugins is dispatched to with two
\* arguments.
C3_Witness ==
  /\ PluginCommand
  /\ pc = "done"
  /\ Len(CallPlugins) = 2
  /\ FirstNamed = 2
  /\ Len(executed) = 1
  /\ call.args = <<S_argOutput, S_argFormat>>

HelpShown ==
  /\ \E i \in DOMAIN out :
       out[i].kind = "log" /\ Includes(out[i].text, S_helpTitleHead)
  /\ \E i \in DOMAIN out : out[i] = Log(S_helpCommands)

NoMatchingCommand ==
  /\ ByMain
  /\ \/ ~call.cmd.defined
     \/ /\ call.cmd.value \notin {S_init, S_verify, S_list, S_export, S_version}
        /\ Named = {}

\* C4: with no command, or a command that is neither built-in nor the name
\* of a registered plugin, the help text is shown, no execute is invoked, no
\* error is logged, and the run ends with endProcessOk.
C4_HelpOnUnknownCommand ==
  NoMatchingCommand =>
    /\ HelpShown
    /\ executed = << >>
    /\ CountKind("logError") = 0
    /\ CountKind("endProcessError") = 0
    /\ pc = "done" => /\ out[Len(out)] = EndProcessOk
                      /\ CountKind("endProcessOk") = 1

\* C4 witness: an unknown command has run to its end with plugins
\* registered.
C4_Witness ==
  /\ NoMatchingCommand
  /\ call.cmd = Cmd(S_junit)
  /\ Len(CallPlugins) = 2
  /\ pc = "done"

\* ------------------------------------------------------------------------
\* Properties of executePlugin
\* ------------------------------------------------------------------------
\* The plugin whose execute was invoked.
ExecutedPlugin ==
  CallPlugins[executed[1].index]

\* The message of the error a failing execute raises, stringified when the
\* raised value is not an Error.
OriginalMessage(plugin) ==
  IF plugin.execute = "rejectString" THEN S_nixGeht ELSE S_pluginFailed

\* C5: when execute throws an Error, rejects or throws a non-Error value,
\* executePlugin rejects with a PluginExecutionError (SH-015) whose message
\* contains the plugin name and the original message; it fulfils only when
\* execute completed without error.
C5_ExecutionErrorWrapped ==
  /\ (Settled(epPromise) /\ executed # << >>) =>
       IF ExecutedPlugin.execute = "resolve"
         THEN epPromise.state = "fulfilled"
         ELSE /\ epPromise.state = "rejected"
              /\ epPromise.err.type = "UserError"
              /\ epPromise.err.code = "SH-015"
              /\ Includes(epPromise.err.message, call.cmd.value)
              /\ Includes(epPromise.err.message,
                          OriginalMessage(ExecutedPlugin))
  /\ epPromise.state = "fulfilled" =>
       /\ Len(executed) = 1
       /\ ExecutedPlugin.execute = "resolve"
       /\ pluginPromise.state = "fulfilled"

\* C5 witness: a directly executed plugin threw a string and executePlugin
\* has rejected.
C5_Witness ==
  /\ call.op = "executePlugin"
  /\ pc = "done"
  /\ executed # << >>
  /\ ExecutedPlugin.execute = "rejectString"
  /\ epPromise.state = "rejected"

NoSuchPlugin ==
  /\ call.op = "executePlugin"
  /\ \/ ~call.plugins.defined
     \/ Len(CallPlugins) = 0
     \/ Named = {}

\* C6: executePlugin rejects with PluginNotFoundError and invokes no execute
\* when the plugins array is undefined, empty, or has no element of the
\* requested name.
C6_PluginNotFound ==
  NoSuchPlugin =>
    /\ epPromise.state = "rejected"
    /\ epPromise.err.type = "UserError"
    /\ epPromise.err.code = "SH-013"
    /\ executed = << >>

\* C6 witness: executePlugin was called with an undefined plugins array.
C6_Witness ==
  /\ NoSuchPlugin
  /\ ~call.plugins.defined
  /\ pc = "done"

FirstNamedLacksExecute ==
  /\ call.op = "executePlugin"
  /\ Named # {}
  /\ CallPlugins[FirstNamed].execute = "missing"

\* C7: when the first element named like the request has no execute function,
\* executePlugin rejects with PluginInvalidError and no execute is invoked,
\* also when a later well-formed plugin carries the same name.
C7_FirstMatchMalformed ==
  FirstNamedLacksExecute =>
    /\ epPromise.state = "rejected"
    /\ epPromise.err.type = "UserError"
    /\ epPromise.err.code = "SH-014"
    /\ executed = << >>

\* C7 witness: a plugin without execute precedes a well-formed plugin of the
\* same name.
C7_Witness ==
  /\ FirstNamedLacksExecute
  /\ call.cmd.value = S_junit
  /\ Len(CallPlugins) = 2
  /\ CallPlugins[1].execute = "missing"
  /\ CallPlugins[2].name = S_junit
  /\ CallPlugins[2].execute = "resolve"
  /\ pc = "done"

EmptyNameSearch ==
  /\ call.op = "executePlugin"
  /\ call.cmd.value = << >>

\* C8 as stated: searching for the empty name rejects with
\* PluginNotFoundError whatever the plugins array holds.
C8_Original ==
  EmptyNameSearch =>
    /\ epPromise.state = "rejected"
    /\ epPromise.err.code = "SH-013"
    /\ executed = << >>

\* C8: searching for the empty name never executes a plugin and always
\* rejects: with PluginNotFoundError when no element of the array has the
\* empty name, with PluginInvalidError when one has.
C8_EmptyNameRejected ==
  EmptyNameSearch =>
    /\ executed = << >>
    /\ epPromise.state = "rejected"
    /\ epPromise.err.type = "UserError"
    /\ epPromise.err.code = IF Named = {} THEN "SH-013" ELSE "SH-014"

\* C8 witness: the empty name was searched in an array holding an entry with
\* the empty name and a working execute.
C8_Witness ==
  /\ EmptyNameSearch
  /\ pc = "done"
  /\ Named # {}
  /\ CallPlugins[FirstNamed].execute = "resolve"

\* ------------------------------------------------------------------------
\* Properties of the error wrappers
\* ------------------------------------------------------------------------
FailedPluginRun ==
  /\ ByMain
  /\ executed # << >>
  /\ ExecutedPlugin.execute # "resolve"

\* C9: when main dispatches to a plugin whose execute fails, a message
\* containing the plugin name and the original failure message is written to
\* the error output and the run ends with endProcessError, never with
\* endProcessOk.
C9_PluginFailureReported ==
  FailedPluginRun =>
    /\ CountKind("endProcessOk") = 0
    /\ pc = "done" =>
         /\ \E i \in DOMAIN out :
              /\ out[i].kind = "logError"
              /\ Includes(out[i].text, ExecutedPlugin.name)
              /\ Includes(out[i].text, OriginalMessage(ExecutedPlugin))
         /\ out[Len(out)] = EndProcessError

\* C9 witness: a plugin run whose execute returned a rejected promise has
\* ended.
C9_Witness ==
  /\ FailedPluginRun
  /\ ExecutedPlugin.execute = "rejectError"
  /\ pc = "done"

\* The message handleError* prints for a thrown value.
ExpectedMessage(thrown) ==
  CASE thrown.type \in {"Error", "UserError"} -> thrown.message
    [] thrown.type = "string" -> thrown.message
    [] thrown.type = "number" /\ thrown.num = 42 -> <<"4", "2">>

\* The run goes through handleError or handleErrorAsync.
Wrapped ==
  \/ call.op \in {"handleError", "handleErrorAsync"}
  \/ ByMain /\ call.cmd # Cmd(S_version)

EndEvents ==
  {i \in DOMAIN out : out[i].kind \in {"endProcessOk", "endProcessError"}}

\* C10: handleError and handleErrorAsync run the wrapped function once and
\* then call exactly one of endProcessOk and endProcessError: endProcessOk
\* exactly when the function neither threw nor rejected; on failure the one
\* message written to the error output precedes endProcessError, on success
\* nothing is written to it.
C10_ExactlyOneProcessEnd ==
  Wrapped =>
    /\ fnRuns = 1
    /\ pc # "done" => EndEvents = {} /\ CountKind("logError") = 0
    /\ pc = "done" =>
         /\ EndEvents = {Len(out)}
         /\ call.op \in {"handleError", "handleErrorAsync"} =>
              IF call.thrown = NoError
                THEN out = <<EndProcessOk>>
                ELSE out = <<LogError(ExpectedMessage(call.thrown)),
                             EndProcessError>>
         /\ ByMain =>
              IF out[Len(out)] = EndProcessOk
                THEN /\ CountKind("logError") = 0
                     /\ call.thrown = NoError
                     /\ fnPromise.state \in {"none", "fulfilled"}
                ELSE /\ CountKind("logError") = 1
                     /\ out[Len(out) - 1].kind = "logError"
                     /\ \/ call.thrown # NoError
                        \/ fnPromise.state = "rejected"

\* C10 witness: handleErrorAsync has handled a promise rejected with a
\* number.
C10_Witness ==
  /\ call.op = "handleErrorAsync"
  /\ ~call.sync
  /\ call.thrown = ThrownNumber(42)
  /\ fnPromise.state = "rejected"
  /\ pc = "done"

\* ------------------------------------------------------------------------
\* Properties of plugin loading
\* ------------------------------------------------------------------------
\* main has called getPlugins: the command was not built-in.
PluginsLoaded ==
  /\ ByMain
  /\ call.plugins.defined

\* C11: getPlugins always returns a list: the empty list when
\* sheriff.config.ts does not exist, fails to parse or has no plugins
\* property, and otherwise the configured plugins in their configured order.
C11_GetPluginsTotal ==
  PluginsLoaded =>
    /\ ~config.exists => CallPlugins = << >>
    /\ (config.exists /\ ~config.parses) => CallPlugins = << >>
    /\ (config.exists /\ config.parses /\ ~config.plugins.defined)
         => CallPlugins = << >>
    /\ (config.exists /\ config.parses /\ config.plugins.defined)
         => /\ Len(CallPlugins) = Len(config.plugins.items)
            /\ \A i \in 1..Len(CallPlugins) :
                 CallPlugins[i] = config.plugins.items[i]

\* C11 witness: two different plugins are configured and main has loaded
\* them for a command that is not built-in.
C11_Witness ==
  /\ PluginsLoaded
  /\ Len(CallPlugins) = 2
  /\ CallPlugins[1] # CallPlugins[2]
  /\ config.plugins.defined

\* ------------------------------------------------------------------------
\* Import graph: construction and traversal
\* ------------------------------------------------------------------------
\* The files of the project, by number; the entry file is file 1.
Files ==
  1..MaxFiles

EntryFile ==
  1

\* The sets of internal files one file can import.  The imports of a file
\* are followed in the order of the file numbers.
ImportSets ==
  {s \in SUBSET Files : Cardinality(s) <= MaxImports}

\* A frame of a depth-first recursion: a file and its imports still to be
\* followed.
Frame(file, todo) ==
  [file |-> file, todo |-> todo]

\* The next import of a frame to follow.
NextImport(frame) ==
  CHOOSE f \in frame.todo : \A g \in frame.todo : f <= g

Top(stack) ==
  stack[Len(stack)]

Pop(stack) ==
  SubSeq(stack, 1, Len(stack) - 1)

\* The stack with `file` taken off the imports to follow of its top frame.
Followed(stack, file) ==
  [stack EXCEPT
     ![Len(stack)] = Frame(Top(stack).file, Top(stack).todo \ {file})]

\* Has the builder a FileInfo for the path already (its visited-set).
Visited(file) ==
  file \in DOMAIN fileInfos

\* A traversal that keeps no record of the nodes it has yielded.
Traversed_never(file) ==
  FALSE

\* Has the traversal in progress yielded the node already.
Traversed(file) ==
  file \in traversed

GraphInit ==
  /\ gpc = "build"
  /\ fileInfos = << >>
  /\ parsed = << >>
  /\ buildStack = << >>
  /\ travStack = << >>
  /\ traversed = {}
  /\ yielded = << >>
  /\ config = [exists |-> FALSE, parses |-> FALSE, plugins |-> Undefined]
  /\ pc = "idle"
  /\ call = NoCall
  /\ returned = FALSE
  /\ out = << >>
  /\ executed = << >>
  /\ fnRuns = 0
  /\ pluginPromise = NoPromise
  /\ epPromise = NoPromise
  /\ fnPromise = NoPromise
  /\ apiResult = NoResult

\* The builder comes to a file it has no FileInfo for (the entry file, or an
\* import of the file on top): it parses the file, which has the given
\* imports, records the FileInfo and follows the imports.
BuildVisit(file, imports) ==
  /\ gpc = "build"
  /\ ~Visited(file)
  /\ Len(buildStack) <= MaxFiles
  /\ \/ buildStack = << >> /\ parsed = << >> /\ file = EntryFile
     \/ buildStack # << >> /\ Top(buildStack).todo # {}
        /\ file = NextImport(Top(buildStack))
  /\ fileInfos' = [f \in DOMAIN fileInfos \cup {file} |->
                     IF f = file THEN imports ELSE fileInfos[f]]
  /\ parsed' = Append(parsed, file)
  /\ buildStack' =
       (IF buildStack = << >> THEN << >> ELSE Followed(buildStack, file))
         \o <<Frame(file, imports)>>
  /\ UNCHANGED <<gpc, travStack, traversed, yielded>>
  /\ UNCHANGED <<cliVars, apiVars>>

\* The builder comes to an import of a file it has visited before: the
\* import refers to the existing FileInfo and the file is not parsed again.
BuildLink(file) ==
  /\ gpc = "build"
  /\ buildStack # << >>
  /\ Top(buildStack).todo # {}
  /\ file = NextImport(Top(buildStack))
  /\ Visited(file)
  /\ buildStack' = Followed(buildStack, file)
  /\ UNCHANGED <<gpc, fileInfos, parsed, travStack, traversed, yielded>>
  /\ UNCHANGED <<cliVars, apiVars>>

\* All imports of the file on top are followed and the recursion returns;
\* the return from the entry file ends the construction, and the traversal
\* of the graph starts.
BuildReturn ==
  /\ gpc = "build"
  /\ buildStack # << >>
  /\ Top(buildStack).todo = {}
  /\ buildStack' = Pop(buildStack)
  /\ gpc' = IF Len(buildStack) = 1 THEN "traverse" ELSE gpc
  /\ UNCHANGED <<fileInfos, parsed, travStack, traversed, yielded>>
  /\ UNCHANGED <<cliVars, apiVars>>

\* traverseFileInfo comes to a node it has not yielded (the root, or an
\* import of the node on top): it yields the node, on which the loop of
\* verifyForPlugin runs its checks, and follows the imports of the node.
TraverseYield(file) ==
  /\ gpc = "traverse"
  /\ ~Traversed(file)
  /\ Len(yielded) <= MaxFiles
  /\ \/ travStack = << >> /\ yielded = << >> /\ file = EntryFile
     \/ travStack # << >> /\ Top(travStack).todo # {}
        /\ file = NextImport(Top(travStack))
  /\ traversed' = traversed \cup {file}
  /\ yielded' = Append(yielded, file)
  /\ travStack' =
       (IF travStack = << >> THEN << >> ELSE Followed(travStack, file))
         \o <<Frame(file, fileInfos[file])>>
  /\ UNCHANGED <<gpc, fileInfos, parsed, buildStack>>
  /\ UNCHANGED <<cliVars, apiVars>>

\* traverseFileInfo comes to a node it has yielded before and leaves it out.
TraverseSkip(file) ==
  /\ gpc = "traverse"
  /\ travStack # << >>
  /\ Top(travStack).todo # {}
  /\ file = NextImport(Top(travStack))
  /\ Traversed(file)
  /\ travStack' = Followed(travStack, file)
  /\ UNCHANGED <<gpc, fileInfos, parsed, buildStack, traversed, yielded>>
  /\ UNCHANGED <<cliVars, apiVars>>

\* All imports of the node on top are followed; the return from the root
\* ends the traversal.
TraverseReturn ==
  /\ gpc = "traverse"
  /\ travStack # << >>
  /\ Top(travStack).todo = {}
  /\ travStack' = Pop(travStack)
  /\ gpc' = IF Len(travStack) = 1 THEN "done" ELSE gpc
  /\ UNCHANGED <<fileInfos, parsed, buildStack, traversed, yielded>>
  /\ UNCHANGED <<cliVars, apiVars>>

GraphNext ==
  \/ \E file \in Files, imports \in ImportSets : BuildVisit(file, imports)
  \/ \E file \in Files : BuildLink(file)
  \/ BuildReturn
  \/ \E file \in Files : TraverseYield(file)
  \/ \E file \in Files : TraverseSkip(file)
  \/ TraverseReturn

GraphSpec ==
  GraphInit /\ [][GraphNext]_vars

\* The analysis is synchronous and single-threaded: it keeps running until
\* it is over.
FairGraphSpec ==
  GraphSpec /\ WF_vars(GraphNext)

\* ------------------------------------------------------------------------
\* Properties of the import graph
\* ------------------------------------------------------------------------
\* The files reachable from the frontier along the recorded imports.
RECURSIVE ReachableFrom(_, _)
ReachableFrom(frontier, seen) ==
  IF frontier = {} THEN seen
  ELSE ReachableFrom(
         UNION {fileInfos[f] : f \in frontier} \ (seen \cup frontier),
         seen \cup frontier)

NoDuplicates(seq) ==
  \A i, j \in DOMAIN seq : seq[i] = seq[j] => i = j

Range(seq) ==
  {seq[i] : i \in DOMAIN seq}

\* C1: for every import graph, cyclic ones included, graph construction and
\* a full traversal come to an end, the builder has parsed each reachable
\* file once, and the traversal has yielded each reachable file exactly
\* once.
C1_CycleTermination ==
  /\ <>(gpc = "done")
  /\ [](gpc \in {"traverse", "done"} =>
          /\ NoDuplicates(parsed)
          /\ Range(parsed) = ReachableFrom({EntryFile}, {}))
  /\ [](NoDuplicates(yielded))
  /\ [](gpc = "done" => Range(yielded) = ReachableFrom({EntryFile}, {}))

\* C1 witness: the traversal is over on a graph in which the entry file and
\* file 2 import each other and both import file 3.
C1_Witness ==
  /\ gpc = "done"
  /\ DOMAIN fileInfos = {1, 2, 3}
  /\ fileInfos[1] = {2, 3}
  /\ fileInfos[2] = {1, 3}
  /\ Len(yielded) = 3

\* ------------------------------------------------------------------------
\* A project on disk: files, modules, tags and the dependency rule table
\* ------------------------------------------------------------------------
\* Tags, and the special keys `root` and `*` of the rule table.
Tag ==
  [root |-> <<"r", "o", "o", "t">>, a |-> <<"a">>, b |-> <<"b">>,
   star |-> <<"*">>]

\* `No dependency rule for tag '${tag}' found in sheriff.config.ts`
NoDependencyRuleForTagError(tag) ==
  UserError("SH-002",
            <<"N", "o", " ", "d", "e", "p", "e", "n", "d", "e", "n", "c", "y",
              " ", "r", "u", "l", "e", " ", "f", "o", "r", " ", "t", "a", "g",
              " ", "'">>
              \o tag
              \o <<"'", " ", "f", "o", "u", "n", "d", " ", "i", "n", " ", "s",
                   "h", "e", "r", "i", "f", "f", ".", "c", "o", "n", "f", "i",
                   "g", ".", "t", "s">>)

\* The files of the project by number, each with the module that owns it
\* ("none": outside any module), the tags of that module and whether the
\* file is the barrel of its module:
\*   1 src/main.ts   2 src/a/index.ts   3 src/a/internal.ts   4 src/b/index.ts
ProjectLayout ==
  <<[module |-> "none", tags |-> <<Tag.root>>, barrel |-> FALSE],
    [module |-> "src/a", tags |-> <<Tag.a>>, barrel |-> TRUE],
    [module |-> "src/a", tags |-> <<Tag.a>>, barrel |-> FALSE],
    [module |-> "src/b", tags |-> <<Tag.b>>, barrel |-> TRUE]>>

\* The import statements a file may contain, as written, with what each
\* resolves to: a file of the project, an external library or nothing.
ImportCatalogue ==
  <<[rawImport |-> "./main", kind |-> "internal", target |-> 1],
    [rawImport |-> "./a", kind |-> "internal", target |-> 2],
    [rawImport |-> "./a/internal", kind |-> "internal", target |-> 3],
    [rawImport |-> "./b", kind |-> "internal", target |-> 4],
    [rawImport |-> "lodash", kind |-> "external", target |-> 0],
    [rawImport |-> "my-module", kind |-> "unresolved", target |-> 0]>>

\* The import lists over the given statements: at most MaxImports
\* statements, in source order.
ImportLists(statements) ==
  {s \in UNION {[1..n -> statements] : n \in 0..MaxImports} :
     \A i, j \in DOMAIN s : i < j => s[i] < s[j]}

\* The rule tables: any of the keys root, a, b and *, each with an
\* allow-list over the tags a and b.
RuleTables ==
  UNION {[keys -> SUBSET {Tag.a, Tag.b}] :
           keys \in SUBSET {Tag.root, Tag.a, Tag.b, Tag.star}}

\* The imports of a file with every specifier taken for a file of src/b.
FileImports_resolveAll(fsPath, projectInfo) ==
  [k \in DOMAIN projectInfo.imports[fsPath] |->
     LET import == ImportCatalogue[projectInfo.imports[fsPath][k]]
     IN  IF import.kind = "internal" THEN import
         ELSE [import EXCEPT !.kind = "internal", !.target = 4]]

\* The resolved imports of a file: the FileInfo of the file.
FileImports(fsPath, projectInfo) ==
  [k \in DOMAIN projectInfo.imports[fsPath] |->
     ImportCatalogue[projectInfo.imports[fsPath][k]]]

\* ------------------------------------------------------------------------
\* The two checkers
\* ------------------------------------------------------------------------
\* Any table with a key is taken to have an entry for every tag.
HasRuleFor_nonEmptyTable(depRules, tag) ==
  DOMAIN depRules # {}

\* The tag has an entry in the rule table: its own key or the key `*`.
HasRuleFor(depRules, tag) ==
  tag \in DOMAIN depRules \/ Tag.star \in DOMAIN depRules

\* The allow-list of `*` read as a list of forbidden tags.
isDependencyAllowed_starForbids(depRules, fromTag, toTags) ==
  \/ /\ fromTag \in DOMAIN depRules
     /\ \E t \in DOMAIN toTags :
          /\ toTags[t] \in depRules[fromTag]
          /\ Tag.star \in DOMAIN depRules
               => toTags[t] \notin depRules[Tag.star]
  \/ /\ fromTag = Tag.root
     /\ Tag.root \in DOMAIN depRules

\* The explicit root entry gives root no special permission.
isDependencyAllowed_noRootRule(depRules, fromTag, toTags) ==
  \/ /\ fromTag \in DOMAIN depRules
     /\ \E t \in DOMAIN toTags : toTags[t] \in depRules[fromTag]
  \/ /\ Tag.star \in DOMAIN depRules
     /\ \E t \in DOMAIN toTags : toTags[t] \in depRules[Tag.star]

isDependencyAllowed(depRules, fromTag, toTags) ==
  \/ /\ fromTag \in DOMAIN depRules
     /\ \E t \in DOMAIN toTags : toTags[t] \in depRules[fromTag]
  \/ /\ Tag.star \in DOMAIN depRules
     /\ \E t \in DOMAIN toTags : toTags[t] \in depRules[Tag.star]
  \/ /\ fromTag = Tag.root
     /\ Tag.root \in DOMAIN depRules

\* Every import that resolved to a file of the project, its own module
\* included.
IsCrossModuleImport_anyInternal(fsPath, import) ==
  import.kind = "internal"

\* An import the rule table is consulted for: it resolved to a file of
\* another module.
IsCrossModuleImport(fsPath, import) ==
  /\ import.kind = "internal"
  /\ ProjectLayout[import.target].module # ProjectLayout[fsPath].module

checkForDependencyRuleViolation(fsPath, projectInfo) ==
  LET depRules == projectInfo.config.depRules
      fromTag == ProjectLayout[fsPath].tags[1]
      violating ==
        SelectSeq(FileImports(fsPath, projectInfo),
                  LAMBDA import :
                    /\ IsCrossModuleImport(fsPath, import)
                    /\ ~isDependencyAllowed(depRules, fromTag,
                          ProjectLayout[import.target].tags))
  IN  IF projectInfo.config.isConfigFileMissing \/ DOMAIN depRules = {}
        THEN [err |-> NoError, violations |-> << >>]
      ELSE IF ~HasRuleFor(depRules, fromTag)
        THEN [err |-> NoDependencyRuleForTagError(fromTag),
              violations |-> << >>]
      ELSE [err |-> NoError,
            violations |->
              [k \in DOMAIN violating |->
                 [fromTag |-> fromTag,
                  toTags |-> ProjectLayout[violating[k].target].tags,
                  rawImport |-> violating[k].rawImport]]]

\* Every import into another module counted, the barrel included.
hasEncapsulationViolations_barrelToo(fsPath, projectInfo) ==
  LET deep ==
        SelectSeq(FileImports(fsPath, projectInfo),
                  LAMBDA import :
                    /\ IsCrossModuleImport(fsPath, import)
                    /\ ProjectLayout[import.target].module # "none")
  IN  [k \in DOMAIN deep |-> deep[k].rawImport]

\* The raw imports of the file that reach past the barrel of another module.
hasEncapsulationViolations(fsPath, projectInfo) ==
  LET deep ==
        SelectSeq(FileImports(fsPath, projectInfo),
                  LAMBDA import :
                    /\ IsCrossModuleImport(fsPath, import)
                    /\ ProjectLayout[import.target].module # "none"
                    /\ ~ProjectLayout[import.target].barrel)
  IN  [k \in DOMAIN deep |-> deep[k].rawImport]

\* ------------------------------------------------------------------------
\* Entry points and the verification run
\* ------------------------------------------------------------------------
\* The messages of the errors thrown when no entry can be determined.
EntryErrorMessages ==
  [both |->
     <<"B","o","t","h"," ","e","n","t","r","y"," ","f","i","l","e"," ","a","n",
          "d"," ","e","n","t","r","y"," ","p","o","i","n","t","s"," ","f","o",
          "u","n","d"," ","i","n"," ","s","h","e","r","i","f","f",".","c","o",
          "n","f","i","g",".","t","s","."," ","P","l","e","a","s","e"," ","p",
          "r","o","v","i","d","e"," ","o","n","l","y"," ","o","n","e"," ","o",
          "p","t","i","o","n">>,
   neither |->
     <<"N","o"," ","e","n","t","r","y"," ","f","i","l","e"," ","o","r"," ","e",
          "n","t","r","y"," ","p","o","i","n","t","s"," ","f","o","u","n","d",
          " ","i","n"," ","s","h","e","r","i","f","f",".","c","o","n","f","i",
          "g",".","t","s","."," ","P","l","e","a","s","e"," ","p","r","o","v",
          "i","d","e"," ","t","h","e"," ","o","p","t","i","o","n"," ","v","i",
          "a"," ","t","h","e"," ","C","L","I",".">>,
   noConfig |->
     <<"P","l","e","a","s","e"," ","p","r","o","v","i","d","e"," ","a","n"," ",
          "e","n","t","r","y"," ","f","i","l","e"," ","(","e",".","g","."," ",
          "m","a","i","n",".","t","s",")"," ","o","r"," ","e","n","t","r","y",
          " ","p","o","i","n","t","s"," ","(","e",".","g","."," ","{"," ","p",
          "r","o","j","e","c","t","N","a","m","e",":"," ","\"","m","a","i","n",
          ".","t","s","\""," ","}",")">>]

\* An entry argument or an entry declaration of the configuration:
\* undefined, a path (a file number, 0 for the empty string) or a record of
\* entry points (a sequence of [projectName, entry]).
UndefinedEntry ==
  [type |-> "undefined", path |-> 0, record |-> << >>]

EntryPath(path) ==
  [type |-> "string", path |-> path, record |-> << >>]

EntryRecord(record) ==
  [type |-> "object", path |-> 0, record |-> record]

\* if (value): undefined and the empty string are falsy, every object is
\* truthy.
IsTruthy(value) ==
  value.type = "object" \/ (value.type = "string" /\ value.path # 0)

\* Object.keys(arg)?.length === 0, for the record the parsed configuration
\* holds.
isEmptyRecord(value) ==
  value.record = << >>

\* sheriffConfig.entryPoints as parseConfig returns it: a configuration
\* that declares no entryPoints reaches the checks as one without keys.
ParsedEntryPoints(declared) ==
  IF declared.type = "undefined" THEN EntryRecord(<< >>) ELSE declared

\* init failing on a project in which an import does not resolve.
init_failOnUnresolved(entryFile, disk) ==
  [err |-> IF \E fsPath \in DOMAIN disk.imports :
                \E k \in DOMAIN disk.imports[fsPath] :
                  ImportCatalogue[disk.imports[fsPath][k]].kind = "unresolved"
             THEN InvalidPathError
           ELSE disk.initError,
   projectInfo |->
     [config |-> [isConfigFileMissing |-> ~disk.configExists,
                  depRules |-> disk.depRules],
      fileInfo |-> entryFile,
      imports |-> disk.imports]]

\* init(entryFile): the ProjectInfo of one entry point, or the fatal
\* configuration error found while building it.
init(entryFile, disk) ==
  [err |-> disk.initError,
   projectInfo |->
     [config |-> [isConfigFileMissing |-> ~disk.configExists,
                  depRules |-> disk.depRules],
      fileInfo |-> entryFile,
      imports |-> disk.imports]]

RECURSIVE InitEntries(_, _, _, _)
\* entries.map(([projectName, entry]) => ...): init throws at the first
\* entry whose project cannot be built.
InitEntries(entries, k, runInit, disk) ==
  IF k > Len(entries)
    THEN [err |-> NoError, entries |-> << >>, inits |-> << >>]
  ELSE LET made == init(entries[k].entry, disk)
           rest == InitEntries(entries, k + 1, runInit, disk)
           called == IF runInit THEN <<entries[k].entry>> ELSE << >>
       IN  IF runInit /\ made.err # NoError
             THEN [err |-> made.err, entries |-> << >>, inits |-> called]
           ELSE IF rest.err # NoError
             THEN [rest EXCEPT !.inits = called \o @]
           ELSE [err |-> NoError,
                 entries |->
                   <<[projectName |-> entries[k].projectName,
                      entry |-> IF runInit THEN made.projectInfo
                                ELSE entries[k].entry]>> \o rest.entries,
                 inits |-> called \o rest.inits]

\* Every entry named 'default', those of a record included.
processEntryFile_allDefault(entryFileValue, runInit, disk) ==
  IF entryFileValue.type = "string"
    THEN InitEntries(<<[projectName |-> "default",
                        entry |-> entryFileValue.path]>>,
                     1, runInit, disk)
    ELSE InitEntries([k \in DOMAIN entryFileValue.record |->
                        [projectName |-> "default",
                         entry |-> entryFileValue.record[k].entry]],
                     1, runInit, disk)

processEntryFile(entryFileValue, runInit, disk) ==
  IF entryFileValue.type = "string"
    THEN InitEntries(<<[projectName |-> "default",
                        entry |-> entryFileValue.path]>>,
                     1, runInit, disk)
    ELSE InitEntries(entryFileValue.record, 1, runInit, disk)

\* The configuration consulted first, the entry argument only without a
\* usable declaration.
getEntryFromCliOrConfig_configFirst(entryFileOrEntryPoints, runInit, disk) ==
  IF disk.configExists /\ IsTruthy(disk.entryFile)
       /\ ~isEmptyRecord(disk.entryPoints)
    THEN [err |-> NewError(EntryErrorMessages.both),
          entries |-> << >>, inits |-> << >>]
  ELSE IF disk.configExists /\ IsTruthy(disk.entryFile)
    THEN processEntryFile(disk.entryFile, runInit, disk)
  ELSE IF disk.configExists /\ ~isEmptyRecord(disk.entryPoints)
    THEN processEntryFile(disk.entryPoints, runInit, disk)
  ELSE IF IsTruthy(entryFileOrEntryPoints)
    THEN processEntryFile(entryFileOrEntryPoints, runInit, disk)
  ELSE [err |-> NewError(EntryErrorMessages.noConfig), entries |-> << >>,
        inits |-> << >>]

\* The older rule: a declared entryFile is used whatever else is declared.
getEntryFromCliOrConfig_entryFileWins(entryFileOrEntryPoints, runInit, disk) ==
  IF IsTruthy(entryFileOrEntryPoints)
    THEN processEntryFile(entryFileOrEntryPoints, runInit, disk)
  ELSE IF disk.configExists
    THEN IF IsTruthy(disk.entryFile)
           THEN processEntryFile(disk.entryFile, runInit, disk)
         ELSE [err |-> NewError(EntryErrorMessages.neither),
               entries |-> << >>, inits |-> << >>]
  ELSE [err |-> NewError(EntryErrorMessages.noConfig), entries |-> << >>,
        inits |-> << >>]

getEntryFromCliOrConfig(entryFileOrEntryPoints, runInit, disk) ==
  IF IsTruthy(entryFileOrEntryPoints)
    THEN processEntryFile(entryFileOrEntryPoints, runInit, disk)
  ELSE IF disk.configExists
    THEN IF IsTruthy(disk.entryFile) /\ ~isEmptyRecord(disk.entryPoints)
           THEN [err |-> NewError(EntryErrorMessages.both),
                 entries |-> << >>, inits |-> << >>]
         ELSE IF IsTruthy(disk.entryFile)
           THEN processEntryFile(disk.entryFile, runInit, disk)
         ELSE IF /\ IsTruthy(disk.entryPoints)
                 /\ ~isEmptyRecord(disk.entryPoints)
           THEN processEntryFile(disk.entryPoints, runInit, disk)
         ELSE [err |-> NewError(EntryErrorMessages.neither),
               entries |-> << >>, inits |-> << >>]
  ELSE [err |-> NewError(EntryErrorMessages.noConfig), entries |-> << >>,
        inits |-> << >>]

RECURSIVE traverseFileInfo(_, _, _)
RECURSIVE TraverseImports(_, _, _, _)
\* The files yielded from fileInfo on, after those already yielded.
traverseFileInfo(fileInfo, yieldedSoFar, projectInfo) ==
  IF fileInfo \in Range(yieldedSoFar) THEN yieldedSoFar
  ELSE TraverseImports(FileImports(fileInfo, projectInfo), 1,
                       Append(yieldedSoFar, fileInfo), projectInfo)

TraverseImports(imports, k, yieldedSoFar, projectInfo) ==
  IF k > Len(imports) THEN yieldedSoFar
  ELSE TraverseImports(
         imports, k + 1,
         IF imports[k].kind = "internal"
           THEN traverseFileInfo(imports[k].target, yieldedSoFar, projectInfo)
           ELSE yieldedSoFar,
         projectInfo)

\* The accumulators of verifyForPlugin before the first file.
NoViolations ==
  [err |-> NoError, encapsulationViolationCount |-> 0,
   dependencyRuleViolationCount |-> 0, filesWithViolationsCount |-> 0,
   violations |-> << >>]

\* The body of the inner loop skipping a file whose check throws.
VerifyFile_skipOnError(acc, fsPath, projectInfo) ==
  LET encapsulations == hasEncapsulationViolations(fsPath, projectInfo)
      checked == checkForDependencyRuleViolation(fsPath, projectInfo)
      dependencyRuleViolations == checked.violations
  IN  IF acc.err # NoError \/ checked.err # NoError THEN acc
      ELSE IF Len(encapsulations) > 0 \/ Len(dependencyRuleViolations) > 0
        THEN [acc EXCEPT
                !.filesWithViolationsCount = @ + 1,
                !.encapsulationViolationCount = @ + Len(encapsulations),
                !.dependencyRuleViolationCount =
                  @ + Len(dependencyRuleViolations),
                !.violations =
                  (fsPath :>
                     [encapsulationViolations |-> encapsulations,
                      dependencyRuleViolations |-> dependencyRuleViolations])
                    @@ @]
      ELSE acc

\* The body of the inner loop for one traversed file; an error thrown by a
\* checker leaves the function.
VerifyFile(acc, fsPath, projectInfo) ==
  LET encapsulations == hasEncapsulationViolations(fsPath, projectInfo)
      checked == checkForDependencyRuleViolation(fsPath, projectInfo)
      dependencyRuleViolations == checked.violations
  IN  IF acc.err # NoError THEN acc
      ELSE IF checked.err # NoError THEN [acc EXCEPT !.err = checked.err]
      ELSE IF Len(encapsulations) > 0 \/ Len(dependencyRuleViolations) > 0
        THEN [acc EXCEPT
                !.filesWithViolationsCount = @ + 1,
                !.encapsulationViolationCount = @ + Len(encapsulations),
                !.dependencyRuleViolationCount =
                  @ + Len(dependencyRuleViolations),
                !.violations =
                  (fsPath :>
                     [encapsulationViolations |-> encapsulations,
                      dependencyRuleViolations |-> dependencyRuleViolations])
                    @@ @]
      ELSE acc

RECURSIVE VerifyFiles(_, _, _, _)
\* for (const { fileInfo } of traverseFileInfo(...))
VerifyFiles(acc, files, k, projectInfo) ==
  IF k > Len(files) THEN acc
  ELSE VerifyFiles(VerifyFile(acc, files[k], projectInfo), files, k + 1,
                   projectInfo)

RECURSIVE VerifyEntries_sharedVisited(_, _, _)
\* The outer loop with one visited-set for all entries: a file reached from
\* an earlier entry is not checked again.
VerifyEntries_sharedVisited(acc, projectEntries, k) ==
  IF k > Len(projectEntries) THEN acc
  ELSE LET projectInfo == projectEntries[k].entry
           seen ==
             UNION {Range(traverseFileInfo(projectEntries[j].entry.fileInfo,
                                           << >>, projectEntries[j].entry)) :
                      j \in 1..(k - 1)}
           files ==
             SelectSeq(traverseFileInfo(projectInfo.fileInfo, << >>,
                                        projectInfo),
                       LAMBDA fsPath : fsPath \notin seen)
       IN  VerifyEntries_sharedVisited(
             VerifyFiles(acc, files, 1, projectInfo), projectEntries, k + 1)

RECURSIVE VerifyEntries(_, _, _)
\* for (const projectEntry of projectEntries)
VerifyEntries(acc, projectEntries, k) ==
  IF k > Len(projectEntries) THEN acc
  ELSE LET projectInfo == projectEntries[k].entry
       IN  VerifyEntries(
             VerifyFiles(acc,
                         traverseFileInfo(projectInfo.fileInfo, << >>,
                                          projectInfo),
                         1, projectInfo),
             projectEntries, k + 1)

\* success decided by the dependency rule violations alone.
verifySuccess_dependencyRulesOnly(encapsulations, dependencyRules) ==
  dependencyRules = 0

verifySuccess(encapsulationViolationCount, dependencyRuleViolationCount) ==
  encapsulationViolationCount = 0 /\ dependencyRuleViolationCount = 0

\* The calls verifyForPlugin would make on the cli object if it ended the
\* process the way the verify command does.
verifyCliCalls_endProcess(success) ==
  IF success THEN <<EndProcessOk>> ELSE <<EndProcessError>>

\* The calls verifyForPlugin makes on the cli object: none.
verifyCliCalls(success) ==
  << >>

verifyForPlugin(entryFile, disk) ==
  LET got == getEntryFromCliOrConfig(entryFile, TRUE, disk)
      acc == VerifyEntries(NoViolations, got.entries, 1)
      success == verifySuccess(acc.encapsulationViolationCount,
                               acc.dependencyRuleViolationCount)
  IN  IF got.err # NoError
        THEN [threw |-> TRUE, err |-> got.err, value |-> << >>,
              cli |-> << >>]
      ELSE IF acc.err # NoError
        THEN [threw |-> TRUE, err |-> acc.err, value |-> << >>,
              cli |-> << >>]
      ELSE [threw |-> FALSE, err |-> NoError,
            value |->
              [success |-> success,
               encapsulationViolationCount |->
                 acc.encapsulationViolationCount,
               dependencyRuleViolationCount |->
                 acc.dependencyRuleViolationCount,
               filesWithViolationsCount |-> acc.filesWithViolationsCount,
               violations |-> acc.violations],
            cli |-> verifyCliCalls(success)]

\* ------------------------------------------------------------------------
\* Calls of the plugin API and of the checkers
\* ------------------------------------------------------------------------
\* The rule tables of the verified projects: empty, complete (root, a and
\* b), incomplete (no entry for b), or with the key `*`.
ProjectRuleTables ==
  {depRules \in RuleTables :
     /\ DOMAIN depRules \in {{}, {Tag.root, Tag.a, Tag.b}, {Tag.root, Tag.a},
                             {Tag.star}, {Tag.b, Tag.star}}
     /\ Tag.root \in DOMAIN depRules => depRules[Tag.root] = {Tag.a, Tag.b}
     /\ Tag.a \in DOMAIN depRules => depRules[Tag.a] \subseteq {Tag.b}
     /\ Tag.b \in DOMAIN depRules => depRules[Tag.b] = {}
     /\ Tag.star \in DOMAIN depRules => depRules[Tag.star] \subseteq {Tag.a}}

\* The statements a file of a verified project may contain: no file imports
\* itself or src/main.ts, and only src/main.ts has imports that do not
\* resolve to a file of the project.
FileStatements(fsPath) ==
  {k \in DOMAIN ImportCatalogue :
     /\ k \notin {1, fsPath}
     /\ fsPath # 1 => ImportCatalogue[k].kind = "internal"}

ProjectImports ==
  ImportLists(FileStatements(1)) \X ImportLists(FileStatements(2))
    \X ImportLists(FileStatements(3)) \X ImportLists(FileStatements(4))

\* What sheriff.config.ts declares as entry: entryFile and entryPoints.
EntryDeclarations ==
  [entryFile : {UndefinedEntry, EntryPath(1)},
   entryPoints :
     {UndefinedEntry, EntryRecord(<< >>),
      EntryRecord(<<[projectName |-> "app", entry |-> 1],
                    [projectName |-> "lib", entry |-> 2]>>)}]

\* A working directory: sheriff.config.ts (if any) with its entry
\* declaration and rule table, the error building the project info ends
\* with (if any), and the imports of every file.
Disk(configExists, declaration, depRules, initError, imports) ==
  [configExists |-> configExists, declared |-> declaration,
   entryFile |-> declaration.entryFile,
   entryPoints |-> ParsedEntryPoints(declaration.entryPoints),
   depRules |-> depRules,
   initError |-> initError, imports |-> imports]

\* The ProjectInfo a checker is called with directly: the file with its
\* imports under the given rule tables, and without sheriff.config.ts.
CheckedProjects(fsPath, tables) ==
  {[config |-> configuration, fileInfo |-> fsPath,
    imports |-> [f \in DOMAIN ProjectLayout |->
                   IF f = fsPath THEN imports ELSE << >>]] :
     configuration \in
       {[isConfigFileMissing |-> FALSE, depRules |-> depRules] :
          depRules \in tables}
         \cup {[isConfigFileMissing |-> TRUE, depRules |-> << >>]},
     imports \in ImportLists(DOMAIN ImportCatalogue \ {fsPath})}

\* No call has been made in a process that runs no command.
ApiInit ==
  /\ config = [exists |-> FALSE, parses |-> FALSE, plugins |-> Undefined]
  /\ pc = "idle"
  /\ call = NoCall
  /\ returned = FALSE
  /\ out = << >>
  /\ executed = << >>
  /\ fnRuns = 0
  /\ pluginPromise = NoPromise
  /\ epPromise = NoPromise
  /\ fnPromise = NoPromise
  /\ GraphOff
  /\ apiResult = NoResult

\* api.verify(entryFile) in the working directory `disk`.
ApiVerify(entryFile, disk) ==
  LET result == verifyForPlugin(entryFile, disk)
  IN  /\ call' = [op |-> "verify", entryFile |-> entryFile, disk |-> disk]
      /\ apiResult' = [threw |-> result.threw, err |-> result.err,
                       value |-> result.value]
      /\ out' = out \o result.cli
      /\ UNCHANGED <<config, pc, returned, executed, fnRuns, pluginPromise,
                     epPromise, fnPromise>>
      /\ UNCHANGED graphVars

\* checkForDependencyRuleViolation(fsPath, projectInfo)
CheckDependencyRules(fsPath, projectInfo) ==
  LET result == checkForDependencyRuleViolation(fsPath, projectInfo)
  IN  /\ call' = [op |-> "checkForDependencyRuleViolation",
                  fsPath |-> fsPath, projectInfo |-> projectInfo]
      /\ apiResult' = [threw |-> result.err # NoError, err |-> result.err,
                       value |-> result.violations]
      /\ UNCHANGED <<config, pc, returned, out, executed, fnRuns,
                     pluginPromise, epPromise, fnPromise>>
      /\ UNCHANGED graphVars

\* hasEncapsulationViolations(fsPath, projectInfo)
CheckEncapsulation(fsPath, projectInfo) ==
  /\ call' = [op |-> "hasEncapsulationViolations", fsPath |-> fsPath,
              projectInfo |-> projectInfo]
  /\ apiResult' = [threw |-> FALSE, err |-> NoError,
                   value |-> hasEncapsulationViolations(fsPath, projectInfo)]
  /\ UNCHANGED <<config, pc, returned, out, executed, fnRuns, pluginPromise,
                 epPromise, fnPromise>>
  /\ UNCHANGED graphVars

\* api.verify() in a project whose configuration declares one kind of entry.
VerifyProject ==
  /\ call = NoCall
  /\ \E declaration \in EntryDeclarations, depRules \in ProjectRuleTables,
        imports \in ProjectImports :
       /\ IsTruthy(declaration.entryFile)
            = isEmptyRecord(declaration.entryPoints)
       /\ ApiVerify(UndefinedEntry,
                    Disk(TRUE, declaration, depRules, NoError, imports))

\* api.verify() and api.verify('src/main.ts') without sheriff.config.ts.
VerifyWithoutConfig ==
  /\ call = NoCall
  /\ \E entryFile \in {UndefinedEntry, EntryPath(1)},
        imports \in ProjectImports :
       ApiVerify(entryFile,
                 Disk(FALSE, [entryFile |-> UndefinedEntry,
                              entryPoints |-> UndefinedEntry],
                      << >>, NoError, imports))

\* api.verify() and api.verify('src/main.ts') in an import-free project
\* with any entry declaration, whose project info may fail to build.
VerifyBareProject ==
  /\ call = NoCall
  /\ \E entryFile \in {UndefinedEntry, EntryPath(1)},
        declaration \in EntryDeclarations, depRules \in ProjectRuleTables,
        initError \in {NoError, InvalidPathError} :
       ApiVerify(entryFile,
                 Disk(TRUE, declaration, depRules, initError,
                      <<<< >>, << >>, << >>, << >>>>))

\* getEntryFromCliOrConfig(entryFileOrEntryPoints, runInit); `inits` are
\* the entry files init was called with, also when the call throws.
GetEntries(entryFileOrEntryPoints, runInit, disk) ==
  LET got == getEntryFromCliOrConfig(entryFileOrEntryPoints, runInit, disk)
  IN  /\ call' = [op |-> "getEntryFromCliOrConfig",
                  entryFileOrEntryPoints |-> entryFileOrEntryPoints,
                  runInit |-> runInit, disk |-> disk]
      /\ apiResult' = [threw |-> got.err # NoError, err |-> got.err,
                       value |-> got.entries, inits |-> got.inits]
      /\ UNCHANGED <<config, pc, returned, out, executed, fnRuns,
                     pluginPromise, epPromise, fnPromise>>
      /\ UNCHANGED graphVars

\* The entry arguments of the command line: none, the empty string, a
\* path, or a record of entry points.
EntryArguments ==
  {UndefinedEntry, EntryPath(0), EntryPath(1), EntryPath(2),
   EntryRecord(<< >>),
   EntryRecord(<<[projectName |-> "cli-b", entry |-> 4],
                 [projectName |-> "cli-a", entry |-> 3]>>)}

\* The entries of a command: with and without sheriff.config.ts, with
\* every entry declaration (an empty entryFile included), building the
\* project infos or not.
ResolveEntries ==
  /\ call = NoCall
  /\ \E entryFileOrEntryPoints \in EntryArguments, runInit \in BOOLEAN,
        configExists \in BOOLEAN,
        entryFile \in {UndefinedEntry, EntryPath(0), EntryPath(1)},
        declaration \in EntryDeclarations,
        initError \in {NoError, InvalidPathError} :
       /\ ~configExists
            => /\ entryFile = UndefinedEntry
               /\ declaration.entryFile = UndefinedEntry
               /\ declaration.entryPoints = UndefinedEntry
       /\ GetEntries(entryFileOrEntryPoints, runInit,
                     Disk(configExists,
                          [declaration EXCEPT
                             !.entryFile =
                               IF @ = UndefinedEntry THEN entryFile ELSE @],
                          << >>, initError, <<<< >>, << >>, << >>, << >>>>))

\* ------------------------------------------------------------------------
\* Project data: api.getProjectData() and the export command
\* ------------------------------------------------------------------------
\* getProjectData(entryFile, options): the files of the graph built from
\* the entry, each with its module, its tags and its imports annotated
\* with their resolution status; imports of external libraries appear with
\* includeExternalLibraries only. A fatal configuration error of the
\* project is thrown.
getProjectData(entryFile, options, disk) ==
  LET made == init(entryFile, disk)
      listed(fsPath) ==
        SelectSeq(FileImports(fsPath, made.projectInfo),
                  LAMBDA import :
                    import.kind = "external"
                      => options.includeExternalLibraries)
  IN  IF made.err # NoError THEN [err |-> made.err, data |-> << >>]
      ELSE [err |-> NoError,
            data |->
              [fsPath \in Range(traverseFileInfo(entryFile, << >>,
                                                 made.projectInfo)) |->
                 [module |-> ProjectLayout[fsPath].module,
                  tags |-> ProjectLayout[fsPath].tags,
                  imports |-> listed(fsPath)]]]

\* getProjectDataForPlugin with the data of the last entry.
getProjectDataForPlugin_lastEntry(entryFile, options, disk) ==
  LET got == getEntryFromCliOrConfig(entryFile, FALSE, disk)
      entry == got.entries[Len(got.entries)]
      made == getProjectData(entry.entry,
                             [projectName |-> entry.projectName,
                              includeExternalLibraries |->
                                options.includeExternalLibraries],
                             disk)
  IN  IF got.err # NoError
        THEN [threw |-> TRUE, err |-> got.err, value |-> << >>]
      ELSE [threw |-> made.err # NoError, err |-> made.err,
            value |-> made.data]

\* getProjectDataForPlugin(entryFile, options): projectEntries[0] of an
\* empty list is undefined, and reading its entry file a TypeError.
getProjectDataForPlugin(entryFile, options, disk) ==
  LET got == getEntryFromCliOrConfig(entryFile, FALSE, disk)
      entry == got.entries[1]
      made == getProjectData(entry.entry,
                             [projectName |-> entry.projectName,
                              includeExternalLibraries |->
                                options.includeExternalLibraries],
                             disk)
  IN  IF got.err # NoError
        THEN [threw |-> TRUE, err |-> got.err, value |-> << >>]
      ELSE IF got.entries = << >>
        THEN [threw |-> TRUE,
              err |-> [NewError(<< >>) EXCEPT !.type = "TypeError"],
              value |-> << >>]
      ELSE [threw |-> made.err # NoError, err |-> made.err,
            value |-> made.data]

\* api.getProjectData(entryFile, options) in the working directory `disk`.
ApiGetProjectData(entryFile, options, disk) ==
  LET result == getProjectDataForPlugin(entryFile, options, disk)
  IN  /\ call' = [op |-> "getProjectData", entryFile |-> entryFile,
                  options |-> options, disk |-> disk]
      /\ apiResult' = result
      /\ UNCHANGED <<config, pc, returned, out, executed, fnRuns,
                     pluginPromise, epPromise, fnPromise>>
      /\ UNCHANGED graphVars

\* api.getProjectData() and api.getProjectData('src/a/index.ts') with every
\* entry declaration and with entry points declared in another order, with
\* and without the external libraries.
ReadProjectData ==
  /\ call = NoCall
  /\ \E entryFile \in {UndefinedEntry, EntryPath(2)},
        declaration \in EntryDeclarations \cup
          {[entryFile |-> UndefinedEntry,
            entryPoints |->
              EntryRecord(<<[projectName |-> "lib", entry |-> 2],
                            [projectName |-> "app", entry |-> 1]>>)]},
        includeExternalLibraries \in BOOLEAN,
        initError \in {NoError, InvalidPathError},
        imports \in ProjectImports :
       /\ initError # NoError => imports = <<<< >>, << >>, << >>, << >>>>
       /\ ApiGetProjectData(
            entryFile,
            [includeExternalLibraries |-> includeExternalLibraries],
            Disk(TRUE, declaration, << >>, initError, imports))

\* sheriff export [entryFile]: one log per entry, the project data with
\* the external libraries as JSON text. The text is what JSON.stringify
\* walks: the files in the order the graph yields them, each with its
\* path and its data. An error leaves the function after the logs made
\* before it.
exportData(args, disk) ==
  LET got == getEntryFromCliOrConfig(
               IF args = << >> THEN UndefinedEntry ELSE args[1], FALSE, disk)
      JSONstringify(entryFile, data) ==
        LET files == traverseFileInfo(entryFile, << >>,
                                      init(entryFile, disk).projectInfo)
        IN  [k \in DOMAIN files |->
               [path |-> files[k], module |-> data[files[k]].module,
                tags |-> data[files[k]].tags,
                imports |-> data[files[k]].imports]]
      RECURSIVE Export(_)
      Export(k) ==
        IF k > Len(got.entries) THEN [err |-> NoError, logs |-> << >>]
        ELSE LET made == getProjectData(
                           got.entries[k].entry,
                           [includeExternalLibraries |-> TRUE], disk)
             IN  IF made.err # NoError
                   THEN [err |-> made.err, logs |-> << >>]
                 ELSE [err |-> Export(k + 1).err,
                       logs |-> <<Log(JSONstringify(got.entries[k].entry,
                                                    made.data))>>
                                  \o Export(k + 1).logs]
      err == IF got.err # NoError THEN got.err ELSE Export(1).err
  IN  /\ call' = [op |-> "export", args |-> args, disk |-> disk]
      /\ out' = out \o (IF got.err # NoError THEN << >> ELSE Export(1).logs)
      /\ apiResult' = [threw |-> err # NoError, err |-> err, value |-> << >>]
      /\ UNCHANGED <<config, pc, returned, executed, fnRuns, pluginPromise,
                     epPromise, fnPromise>>
      /\ UNCHANGED graphVars

\* sheriff export src/main.ts without sheriff.config.ts, and sheriff export
\* with an entry file or entry points declared.
ExportProject ==
  /\ call = NoCall
  /\ \E configExists \in BOOLEAN, declaration \in EntryDeclarations,
        initError \in {NoError, InvalidPathError},
        imports \in ProjectImports :
       /\ IsTruthy(declaration.entryFile)
            = isEmptyRecord(declaration.entryPoints)
       /\ initError # NoError => imports = <<<< >>, << >>, << >>, << >>>>
       /\ exportData(IF configExists THEN << >> ELSE <<EntryPath(1)>>,
                     Disk(configExists,
                          IF configExists THEN declaration
                          ELSE [entryFile |-> UndefinedEntry,
                                entryPoints |-> UndefinedEntry],
                          << >>, initError, imports))

\* A checker called directly on one file.
CheckFile ==
  /\ call = NoCall
  /\ \E fsPath \in DOMAIN ProjectLayout :
       \/ \E projectInfo \in CheckedProjects(fsPath, RuleTables) :
            CheckDependencyRules(fsPath, projectInfo)
       \/ \E projectInfo \in CheckedProjects(fsPath, {<< >>}) :
            CheckEncapsulation(fsPath, projectInfo)

ApiNext ==
  \/ VerifyProject
  \/ VerifyWithoutConfig
  \/ VerifyBareProject
  \/ ResolveEntries
  \/ ReadProjectData
  \/ ExportProject
  \/ CheckFile

ApiSpec ==
  ApiInit /\ [][ApiNext]_vars

\* ------------------------------------------------------------------------
\* Properties of api.verify()
\* ------------------------------------------------------------------------
\* api.verify() was called and returned a VerificationResult.
VerifyReturned ==
  /\ call.op = "verify"
  /\ ~apiResult.threw

\* api.verify() was called and threw.
VerifyThrew ==
  /\ call.op = "verify"
  /\ apiResult.threw

\* The project infos of the entries of the call.
VerifiedEntries ==
  getEntryFromCliOrConfig(call.entryFile, TRUE, call.disk).entries

\* The files reachable from the entry of a project info.
VisitedFiles(projectInfo) ==
  Range(traverseFileInfo(projectInfo.fileInfo, << >>, projectInfo))

\* One of the two checkers reports something for the file.
FileHasViolation(fsPath, projectInfo) ==
  \/ Len(hasEncapsulationViolations(fsPath, projectInfo)) > 0
  \/ Len(checkForDependencyRuleViolation(fsPath, projectInfo).violations) > 0

\* Some reachable file of some entry of the call has a violation.
ProjectHasViolation ==
  \E e \in DOMAIN VerifiedEntries :
    \E fsPath \in VisitedFiles(VerifiedEntries[e].entry) :
      FileHasViolation(fsPath, VerifiedEntries[e].entry)

\* C12: the result of a verification run has success = true exactly when
\* both violation counts are 0; a run over a project in which no reachable
\* file has a violation gives success = true, an empty violations map and
\* filesWithViolationsCount = 0, and a run over a project in which some
\* reachable file has a violation gives success = false.
C12_SuccessIffNoViolations ==
  VerifyReturned =>
    /\ apiResult.value.success
         <=> /\ apiResult.value.encapsulationViolationCount = 0
             /\ apiResult.value.dependencyRuleViolationCount = 0
    /\ ~ProjectHasViolation
         => /\ apiResult.value.success
            /\ DOMAIN apiResult.value.violations = {}
            /\ apiResult.value.filesWithViolationsCount = 0
    /\ ProjectHasViolation => ~apiResult.value.success

\* A run that found encapsulation violations only.
C12_Witness ==
  /\ VerifyReturned
  /\ apiResult.value.encapsulationViolationCount > 0
  /\ apiResult.value.dependencyRuleViolationCount = 0
  /\ ~apiResult.value.success
  /\ ProjectHasViolation

\* The calls made on the cli object that end the process.
EndProcessCalls ==
  SelectSeq(out, LAMBDA event : event \in {EndProcessOk, EndProcessError})

\* C13: during a call of api.verify(), whether it finds violations, finds
\* none or throws, neither endProcessOk nor endProcessError is called: the
\* outcome reaches the caller as data (or as the thrown error) only.
C13_VerifyNeverEndsProcess ==
  call.op = "verify" => EndProcessCalls = << >>

\* A call that found violations and returned them.
C13_Witness ==
  /\ VerifyReturned
  /\ ~apiResult.value.success
  /\ apiResult.value.filesWithViolationsCount > 0
  /\ EndProcessCalls = << >>

\* The entries of the call as declared, before any project info is built.
DeclaredEntries ==
  getEntryFromCliOrConfig(call.entryFile, FALSE, call.disk)

\* The errors building the project infos of the entries ends with.
BuildErrors ==
  {init(DeclaredEntries.entries[e].entry, call.disk).err :
     e \in DOMAIN DeclaredEntries.entries} \ {NoError}

\* The errors the dependency rule checker raises on the reachable files.
CheckErrors ==
  UNION {{checkForDependencyRuleViolation(fsPath,
                                          VerifiedEntries[e].entry).err :
            fsPath \in VisitedFiles(VerifiedEntries[e].entry)} :
           e \in DOMAIN VerifiedEntries} \ {NoError}

\* The configuration errors the run meets.
ConfigurationErrors ==
  IF BuildErrors # {} THEN BuildErrors ELSE CheckErrors

\* The file at position j of the traversal of an entry raises an error
\* after a file at an earlier position had violations.
ErrorAfterViolation ==
  \E e \in DOMAIN VerifiedEntries :
    LET projectInfo == VerifiedEntries[e].entry
        files == traverseFileInfo(projectInfo.fileInfo, << >>, projectInfo)
    IN  \E i, j \in DOMAIN files :
          /\ i < j
          /\ FileHasViolation(files[i], projectInfo)
          /\ checkForDependencyRuleViolation(files[j], projectInfo).err
               # NoError

\* C14: if building the project info of an entry or checking any reachable
\* file raises a configuration error, api.verify() returns nothing (no
\* counts and no violations map, not even for the files checked before) and
\* one of those errors reaches the caller.
C14_FatalErrorAborts ==
  (/\ call.op = "verify"
   /\ DeclaredEntries.err = NoError
   /\ ConfigurationErrors # {})
    => /\ apiResult.threw
       /\ apiResult.value = << >>
       /\ apiResult.err \in ConfigurationErrors

\* The checker raised SH-002 on a file after an earlier file of the same
\* traversal had violations.
C14_Witness ==
  /\ VerifyThrew
  /\ DeclaredEntries.err = NoError
  /\ ErrorAfterViolation
  /\ apiResult.err.code = "SH-002"
  /\ apiResult.value = << >>

\* ------------------------------------------------------------------------
\* Properties of the two checkers
\* ------------------------------------------------------------------------
DependencyRulesChecked ==
  call.op = "checkForDependencyRuleViolation"

EncapsulationChecked ==
  call.op = "hasEncapsulationViolations"

\* The statements of the file with the given classification.
StatementsOfKind(fsPath, projectInfo, kinds) ==
  {ImportCatalogue[k] : k \in
     {n \in Range(projectInfo.imports[fsPath]) :
        ImportCatalogue[n].kind \in kinds}}

\* The raw imports of the file that resolved to a file of the project.
InternalRawImports(fsPath, projectInfo) ==
  {import.rawImport :
     import \in StatementsOfKind(fsPath, projectInfo, {"internal"})}

\* The raw imports named by the violations recorded for a file.
ReportedRawImports(fileViolations) ==
  Range(fileViolations.encapsulationViolations)
    \cup {fileViolations.dependencyRuleViolations[k].rawImport :
            k \in DOMAIN fileViolations.dependencyRuleViolations}

\* C15: imports classified as external library or as unresolved never
\* contribute a violation of either kind: what either checker reports for
\* a file, and what a run records for it, names only raw imports of the
\* file that resolved to a file of the project.
C15_OnlyInternalImportsViolate ==
  /\ DependencyRulesChecked =>
       \A k \in DOMAIN apiResult.value :
         apiResult.value[k].rawImport
           \in InternalRawImports(call.fsPath, call.projectInfo)
  /\ EncapsulationChecked =>
       Range(apiResult.value)
         \subseteq InternalRawImports(call.fsPath, call.projectInfo)
  /\ VerifyReturned =>
       \A fsPath \in DOMAIN apiResult.value.violations :
         ReportedRawImports(apiResult.value.violations[fsPath])
           \subseteq InternalRawImports(fsPath, call.disk)

\* A run in which a file with violations also imports an external library
\* or has an import that does not resolve.
C15_Witness ==
  /\ VerifyReturned
  /\ \E fsPath \in DOMAIN apiResult.value.violations :
       /\ StatementsOfKind(fsPath, call.disk, {"external", "unresolved"})
            # {}
       /\ apiResult.value.violations[fsPath].dependencyRuleViolations
            # << >>

\* The raw imports of the file that resolved to a file of its own module.
SameModuleRawImports(fsPath, projectInfo) ==
  {import.rawImport :
     import \in
       {i \in StatementsOfKind(fsPath, projectInfo, {"internal"}) :
          ProjectLayout[i.target].module = ProjectLayout[fsPath].module}}

\* C16: a file importing another file of its own module never produces an
\* encapsulation violation or a dependency rule violation for that import,
\* whatever the rule table contains, also when the tag of the module is
\* not in its own allow-list.
C16_NoViolationOnSameModuleImport ==
  /\ DependencyRulesChecked =>
       \A k \in DOMAIN apiResult.value :
         apiResult.value[k].rawImport
           \notin SameModuleRawImports(call.fsPath, call.projectInfo)
  /\ EncapsulationChecked =>
       Range(apiResult.value)
         \cap SameModuleRawImports(call.fsPath, call.projectInfo) = {}
  /\ VerifyReturned =>
       \A fsPath \in DOMAIN apiResult.value.violations :
         ReportedRawImports(apiResult.value.violations[fsPath])
           \cap SameModuleRawImports(fsPath, call.disk) = {}

\* src/a/index.ts imports src/a/internal.ts and src/b under a table in
\* which a allows nothing: only the import of src/b is reported.
C16_Witness ==
  /\ DependencyRulesChecked
  /\ call.fsPath = 2
  /\ SameModuleRawImports(call.fsPath, call.projectInfo) # {}
  /\ Tag.a \in DOMAIN call.projectInfo.config.depRules
  /\ call.projectInfo.config.depRules[Tag.a] = {}
  /\ Len(apiResult.value) = 1

\* The rule table with one more tag in the allow-list of `*`.
WithStarAllowing(depRules, tag) ==
  [depRules EXCEPT ![Tag.star] = @ \cup {tag}]

\* Every violation recorded for a file in `after` is recorded for it in
\* `before`.
NoNewViolation(before, after) ==
  \A fsPath \in DOMAIN after :
    /\ fsPath \in DOMAIN before
    /\ Range(after[fsPath].encapsulationViolations)
         \subseteq Range(before[fsPath].encapsulationViolations)
    /\ Range(after[fsPath].dependencyRuleViolations)
         \subseteq Range(before[fsPath].dependencyRuleViolations)

PermittedByTable(depRules, fromTag, toTags) ==
  \/ fromTag \in DOMAIN depRules /\ Range(toTags) \cap depRules[fromTag] # {}
  \/ Tag.star \in DOMAIN depRules
       /\ Range(toTags) \cap depRules[Tag.star] # {}
  \/ fromTag = Tag.root /\ Tag.root \in DOMAIN depRules

\* The raw imports of the file into other modules that the table permits,
\* the file taken as tagged root when it is outside any module.
PermittedRawImports(fsPath, imports, depRules) ==
  LET fromTag == IF ProjectLayout[fsPath].module = "none" THEN Tag.root
                 ELSE ProjectLayout[fsPath].tags[1]
  IN  {import.rawImport :
         import \in
           {i \in StatementsOfKind(fsPath, imports, {"internal"}) :
              /\ ProjectLayout[i.target].module
                   # ProjectLayout[fsPath].module
              /\ PermittedByTable(depRules, fromTag,
                                  ProjectLayout[i.target].tags)}}

TagWithoutEntry(fsPath, depRules) ==
  /\ ProjectLayout[fsPath].tags[1] \notin DOMAIN depRules
  /\ Tag.star \notin DOMAIN depRules

\* The error is the fatal configuration error SH-002.
IsNoRuleError(err) ==
  err.type = "UserError" /\ err.code = "SH-002"

\* C19: checking a file whose module tag has no entry at all in a
\* non-empty rule table fails with the fatal configuration error SH-002
\* naming the tag and returns no violations; no such error is raised when
\* sheriff.config.ts is missing or when the rule table is empty, neither
\* by the checker nor by a run.
C19_NoRuleForTagIsFatal ==
  /\ DependencyRulesChecked =>
       LET configuration == call.projectInfo.config
       IN  /\ (/\ ~configuration.isConfigFileMissing
               /\ DOMAIN configuration.depRules # {}
               /\ TagWithoutEntry(call.fsPath, configuration.depRules))
                => /\ apiResult.threw
                   /\ apiResult.value = << >>
                   /\ apiResult.err =
                        NoDependencyRuleForTagError(
                          ProjectLayout[call.fsPath].tags[1])
           /\ (\/ configuration.isConfigFileMissing
               \/ DOMAIN configuration.depRules = {})
                => ~apiResult.threw
  /\ (/\ call.op = "verify"
      /\ ~call.disk.configExists \/ DOMAIN call.disk.depRules = {})
       => ~IsNoRuleError(apiResult.err)

\* src/b/index.ts is checked under a table with entries for other tags
\* only.
C19_Witness ==
  /\ DependencyRulesChecked
  /\ call.fsPath = 4
  /\ DOMAIN call.projectInfo.config.depRules = {Tag.root, Tag.a}
  /\ apiResult.threw
  /\ IsNoRuleError(apiResult.err)

\* The raw imports of the file that resolve to a file inside the directory
\* of another module other than the barrel of that module.
DeepRawImports(fsPath, projectInfo) ==
  {import.rawImport :
     import \in
       {i \in StatementsOfKind(fsPath, projectInfo, {"internal"}) :
          /\ ProjectLayout[i.target].module # "none"
          /\ ProjectLayout[i.target].module # ProjectLayout[fsPath].module
          /\ ~ProjectLayout[i.target].barrel}}

\* The encapsulation violations a run recorded for the file.
RecordedEncapsulations(fsPath) ==
  IF fsPath \in DOMAIN apiResult.value.violations
    THEN apiResult.value.violations[fsPath].encapsulationViolations
    ELSE << >>

RECURSIVE ListedViolations(_, _, _)
\* The number of entries the violations map lists under the given field
\* for the given files.
ListedViolations(violations, files, field) ==
  IF files = {} THEN 0
  ELSE LET fsPath == CHOOSE f \in files : TRUE
       IN  Len(violations[fsPath][field])
             + ListedViolations(violations, files \ {fsPath}, field)

\* Some file is reachable from two entries of the call.
FileSharedByEntries ==
  \E d, e \in DOMAIN VerifiedEntries :
    /\ d # e
    /\ VisitedFiles(VerifiedEntries[d].entry)
         \cap VisitedFiles(VerifiedEntries[e].entry) # {}

\* C24: the summary counts of a verification result agree with its
\* violations map for any number of entry points: filesWithViolationsCount
\* is the number of keys of the map, encapsulationViolationCount the number
\* of encapsulation entries listed in it and dependencyRuleViolationCount
\* the number of dependency rule entries listed in it.
C24_CountsMatchMap ==
  VerifyReturned =>
    LET result == apiResult.value
    IN  /\ result.filesWithViolationsCount
             = Cardinality(DOMAIN result.violations)
        /\ result.encapsulationViolationCount
             = ListedViolations(result.violations, DOMAIN result.violations,
                                "encapsulationViolations")
        /\ result.dependencyRuleViolationCount
             = ListedViolations(result.violations, DOMAIN result.violations,
                                "dependencyRuleViolations")

\* The result of api.verify(entry) for one declared entry of the call
\* verified alone, in the same working directory.
VerifiedAlone(e) ==
  verifyForPlugin(EntryPath(DeclaredEntries.entries[e].entry), call.disk)

RECURSIVE SumAlone(_, _)
\* The sum of a count over the declared entries verified alone.
SumAlone(entries, field) ==
  IF entries = {} THEN 0
  ELSE LET e == CHOOSE d \in entries : TRUE
       IN  VerifiedAlone(e).value[field] + SumAlone(entries \ {e}, field)

\* A run over several entry points returned.
SeveralEntriesVerified ==
  /\ VerifyReturned
  /\ Len(VerifiedEntries) > 1

\* C22: with several entry points, what is recorded for the files of one
\* entry point is the same whether that entry point is verified alone or
\* together with the others: every entry verified alone returns, the files
\* it visits have the same record (or none) in the common run, the common
\* map records nothing else, and every count of the common run is the sum
\* of the counts of the entries verified alone.
C22_EntryPointsIndependent ==
  SeveralEntriesVerified =>
    LET together == apiResult.value
        entries == DOMAIN VerifiedEntries
    IN  /\ \A e \in entries :
             LET alone == VerifiedAlone(e)
             IN  /\ ~alone.threw
                 /\ \A fsPath \in VisitedFiles(VerifiedEntries[e].entry) :
                      /\ fsPath \in DOMAIN together.violations
                           <=> fsPath \in DOMAIN alone.value.violations
                      /\ fsPath \in DOMAIN together.violations
                           => together.violations[fsPath]
                                = alone.value.violations[fsPath]
        /\ DOMAIN together.violations
             = UNION {DOMAIN VerifiedAlone(e).value.violations :
                        e \in entries}
        /\ together.encapsulationViolationCount
             = SumAlone(entries, "encapsulationViolationCount")
        /\ together.dependencyRuleViolationCount
             = SumAlone(entries, "dependencyRuleViolationCount")
        /\ together.filesWithViolationsCount
             = SumAlone(entries, "filesWithViolationsCount")

\* Two entry points reach the same file, which has violations.
C22_Witness ==
  /\ SeveralEntriesVerified
  /\ \E fsPath \in DOMAIN apiResult.value.violations :
       \A e \in DOMAIN VerifiedEntries :
         fsPath \in VisitedFiles(VerifiedEntries[e].entry)

\* ------------------------------------------------------------------------
\* Properties of getEntryFromCliOrConfig
\* ------------------------------------------------------------------------
EntriesResolved ==
  call.op = "getEntryFromCliOrConfig"

\* No entry argument was given: undefined or the empty string.
NoEntryArgument ==
  call.entryFileOrEntryPoints.type \in {"undefined", "string"}
    /\ call.entryFileOrEntryPoints.path = 0

\* What sheriff.config.ts declares, as written.
DeclaresEntryFile ==
  /\ call.disk.configExists
  /\ call.disk.declared.entryFile.type = "string"
  /\ call.disk.declared.entryFile.path # 0

DeclaresEntryPoints ==
  /\ call.disk.configExists
  /\ call.disk.declared.entryPoints.type = "object"
  /\ Len(call.disk.declared.entryPoints.record) > 0

\* The call threw new Error(message), built no project info and returned
\* nothing.
FailedWith(message) ==
  /\ apiResult.threw
  /\ apiResult.err = NewError(message)
  /\ apiResult.value = << >>
  /\ apiResult.inits = << >>

\* C23: without an entry argument, getEntryFromCliOrConfig fails with an
\* error if sheriff.config.ts declares both an entryFile and a non-empty
\* entryPoints, if it declares neither, or if there is no sheriff.config.ts;
\* in each case no project is initialised and no entry is returned.
C23_EntryDeclarationErrors ==
  (EntriesResolved /\ NoEntryArgument) =>
    /\ (DeclaresEntryFile /\ DeclaresEntryPoints)
         => FailedWith(EntryErrorMessages.both)
    /\ (call.disk.configExists /\ ~DeclaresEntryFile /\ ~DeclaresEntryPoints)
         => FailedWith(EntryErrorMessages.neither)
    /\ ~call.disk.configExists => FailedWith(EntryErrorMessages.noConfig)

\* Both entryFile and entryPoints are declared and the project infos were
\* to be built.
C23_Witness ==
  /\ EntriesResolved
  /\ NoEntryArgument
  /\ call.runInit
  /\ DeclaresEntryFile
  /\ DeclaresEntryPoints
  /\ FailedWith(EntryErrorMessages.both)

\* A non-empty entry argument was given: a path or a record with keys.
EntryArgumentGiven ==
  \/ call.entryFileOrEntryPoints.type = "string"
       /\ call.entryFileOrEntryPoints.path # 0
  \/ call.entryFileOrEntryPoints.type = "object"
       /\ Len(call.entryFileOrEntryPoints.record) > 0

\* The name and the entry file of each entry the given value stands for.
EntriesOf(value) ==
  IF value.type = "string"
    THEN <<[projectName |-> "default", entry |-> value.path]>>
    ELSE value.record

\* The name and the entry file of each returned entry.
ReturnedEntries ==
  [k \in DOMAIN apiResult.value |->
     [projectName |-> apiResult.value[k].projectName,
      entry |-> IF call.runInit THEN apiResult.value[k].entry.fileInfo
                ELSE apiResult.value[k].entry]]

\* The error is one of the three entry declaration errors.
IsEntryDeclarationError(err) ==
  err \in {NewError(EntryErrorMessages.both),
           NewError(EntryErrorMessages.neither),
           NewError(EntryErrorMessages.noConfig)}

UnparsableConfigCommand ==
  /\ ByMain
  /\ config.exists
  /\ ~config.parses
  /\ call.cmd.defined
  /\ call.cmd.value \notin BUILTIN_COMMANDS

\* C29: with a sheriff.config.ts that fails to parse, main(cmd) for a
\* command that is not built-in behaves as if no plugin were registered:
\* no execute is invoked, the help text without plugin lines is shown, no
\* error is logged and the run ends with endProcessOk.
C29_UnparsableConfigShowsHelp ==
  UnparsableConfigCommand =>
    /\ CallPlugins = << >>
    /\ executed = << >>
    /\ CountKind("logError") = 0
    /\ CountKind("endProcessError") = 0
    /\ HelpShown
    /\ pc = "done" => out = showHelp(<< >>) \o <<EndProcessOk>>

\* The file that does not parse declares a well-formed plugin named like
\* the command, and the run has ended.
C29_Witness ==
  /\ UnparsableConfigCommand
  /\ config.plugins.defined
  /\ config.plugins.items[1].name = call.cmd.value
  /\ WellFormed(config.plugins.items[1])
  /\ pc = "done"
  /\ out[Len(out)] = EndProcessOk

\* ------------------------------------------------------------------------
\* Properties of the end of a plugin run
\* ------------------------------------------------------------------------
\* main dispatched to a plugin whose execute returned a promise.
PluginStarted ==
  /\ PluginCommand
  /\ executed # << >>
  /\ pluginPromise.state # "none"

\* C25: for a plugin command, main has returned to its caller while the
\* promise returned by execute may still be pending; as long as it is
\* pending neither endProcessOk nor endProcessError has been called, and
\* the finished run has called exactly one of them, as the last call on
\* the cli object: endProcessOk when the promise fulfilled and
\* endProcessError when it rejected.
C25_ProcessEndsAfterPlugin ==
  PluginStarted =>
    /\ returned
    /\ pluginPromise.state = "pending" => EndEvents = {} /\ pc # "done"
    /\ EndEvents # {} => Settled(pluginPromise) /\ pc = "done"
    /\ pc = "done" =>
         /\ EndEvents = {Len(out)}
         /\ pluginPromise.state = "fulfilled"
              => out[Len(out)] = EndProcessOk
         /\ pluginPromise.state = "rejected"
              => out[Len(out)] = EndProcessError

\* main has returned while the plugin is still running and the process has
\* not been ended.
C25_Witness ==
  /\ PluginStarted
  /\ returned
  /\ pluginPromise.state = "pending"
  /\ pc = "awaiting"
  /\ EndEvents = {}

\* ------------------------------------------------------------------------
\* parseStringOrRecord: the entry argument of the command line
\* ------------------------------------------------------------------------
\* A string is the sequence of its characters. The characters of an
\* argument: the JSON punctuation, both quotes, a letter, a digit and a
\* blank.
ArgumentChars ==
  {"{", "}", "\"", "'", ":", ",", "a", "1", " "}

MaxArgumentLen == 5

\* Every argument of at most MaxArgumentLen characters, the arguments of
\* parse-string-or-record.spec.ts written with the characters above, and
\* arguments with quotes inside of keys.
Arguments ==
  UNION {[1..n -> ArgumentChars] : n \in 0..MaxArgumentLen} \cup
  {
     \* two entries, double quotes: {"a": "a", "1": "a"}
     <<"{", "\"", "a", "\"", ":", " ", "\"", "a", "\"", ",", " ", "\"", "1", "\"", ":", " ", "\"", "a", "\"", "}">>,
     \* single quotes: {'a': 'a', '1': 'a'}
     <<"{", "'", "a", "'", ":", " ", "'", "a", "'", ",", " ", "'", "1", "'", ":", " ", "'", "a", "'", "}">>,
     \* mixed quotes: {'a': "a", "1": 'a'}
     <<"{", "'", "a", "'", ":", " ", "\"", "a", "\"", ",", " ", "\"", "1", "\"", ":", " ", "'", "a", "'", "}">>,
     \* no quotes: {a: a}
     <<"{", "a", ":", " ", "a", "}">>,
     \* missing closing brace: {"a": "a"
     <<"{", "\"", "a", "\"", ":", " ", "\"", "a", "\"">>,
     \* whitespace around the braces:   {"a": "a"}  
     <<" ", " ", "{", "\"", "a", "\"", ":", " ", "\"", "a", "\"", "}", " ", " ">>,
     \* a number value: {"a": "a", "1": 11}
     <<"{", "\"", "a", "\"", ":", " ", "\"", "a", "\"", ",", " ", "\"", "1", "\"", ":", " ", "1", "1", "}">>,
     \* a nested object: {"a": "a", "1": {"a": 1}}
     <<"{", "\"", "a", "\"", ":", " ", "\"", "a", "\"", ",", " ", "\"", "1", "\"", ":", " ", "{", "\"", "a", "\"", ":", " ", "1", "}", "}">>,
     \* an apostrophe in a JSON string: {"a": "a'a"}
     <<"{", "\"", "a", "\"", ":", " ", "\"", "a", "'", "a", "\"", "}">>,
     \* an apostrophe in a single-quoted string: {'a': 'a'a'}
     <<"{", "'", "a", "'", ":", " ", "'", "a", "'", "a", "'", "}">>,
     \* a number overwritten after the replacement: {"a": 1, 'a': 'a'}
     <<"{", "\"", "a", "\"", ":", " ", "1", ",", " ", "'", "a", "'", ":", " ", "'", "a", "'", "}">>,
     \* a number that the replacement moves into a string: {"a':":1,",'1":"a"}
     <<"{", "\"", "a", "'", ":", "\"", ":", "1", ",", "\"", ",", "'", "1", "\"", ":", "\"", "a", "\"", "}">>
  }

\* JSON.parse(text): ok is FALSE when it throws a SyntaxError. The grammar
\* is the one of ECMA-404 for the characters above: blanks between tokens,
\* strings without escapes, numbers made of digits, objects. The members
\* of an object map its keys to values; a repeated key keeps its last
\* value.
JSONparse(text) ==
  LET RECURSIVE SkipBlanks(_), StringEnd(_), NumberEnd(_)
      RECURSIVE Value(_), Members(_, _)
      JsonValue(type, chars, members) ==
        [type |-> type, text |-> chars, members |-> members]
      at(i, c) == i <= Len(text) /\ text[i] = c
      fail == [ok |-> FALSE, next |-> 0,
               value |-> JsonValue("undefined", << >>, << >>)]
      SkipBlanks(i) == IF at(i, " ") THEN SkipBlanks(i + 1) ELSE i
      \* the closing quote of the string whose first character is at i
      StringEnd(i) ==
        IF i > Len(text) THEN 0
        ELSE IF text[i] = "\"" THEN i
        ELSE StringEnd(i + 1)
      NumberEnd(i) == IF at(i, "1") THEN NumberEnd(i + 1) ELSE i
      Value(i) ==
        IF at(i, "\"")
          THEN IF StringEnd(i + 1) = 0 THEN fail
               ELSE [ok |-> TRUE, next |-> StringEnd(i + 1) + 1,
                     value |-> JsonValue("string",
                                 SubSeq(text, i + 1, StringEnd(i + 1) - 1),
                                 << >>)]
        ELSE IF at(i, "1")
          THEN [ok |-> TRUE, next |-> NumberEnd(i),
                value |-> JsonValue("number",
                            SubSeq(text, i, NumberEnd(i) - 1), << >>)]
        ELSE IF at(i, "{")
          THEN IF at(SkipBlanks(i + 1), "}")
                 THEN [ok |-> TRUE, next |-> SkipBlanks(i + 1) + 1,
                       value |-> JsonValue("object", << >>, << >>)]
               ELSE Members(SkipBlanks(i + 1), << >>)
        ELSE fail
      \* the members of an object from the key at i on
      Members(i, members) ==
        IF ~at(i, "\"") \/ StringEnd(i + 1) = 0 THEN fail
        ELSE
          LET key == SubSeq(text, i + 1, StringEnd(i + 1) - 1)
              colon == SkipBlanks(StringEnd(i + 1) + 1)
              member == Value(SkipBlanks(colon + 1))
              after == SkipBlanks(member.next)
              set == [k \in DOMAIN members \cup {key} |->
                        IF k = key THEN member.value ELSE members[k]]
          IN  IF ~at(colon, ":") THEN fail
              ELSE IF ~member.ok THEN fail
              ELSE IF at(after, "}")
                THEN [ok |-> TRUE, next |-> after + 1,
                      value |-> JsonValue("object", << >>, set)]
              ELSE IF at(after, ",")
                THEN Members(SkipBlanks(after + 1), set)
              ELSE fail
      top == Value(SkipBlanks(1))
  IN  IF top.ok /\ SkipBlanks(top.next) = Len(text) + 1
        THEN [ok |-> TRUE, value |-> top.value]
      ELSE [ok |-> FALSE, value |-> fail.value]

\* trimmedInput.replace(/'/g, '"')
withDoubleQuotes(s) ==
  [i \in DOMAIN s |-> IF s[i] = "'" THEN "\"" ELSE s[i]]

\* typeof parsed === 'object' && parsed !== null, and every value of
\* Object.values(parsed) is a string.
allValuesAreStrings(object) ==
  /\ object.type = "object"
  /\ \A k \in DOMAIN object.members : object.members[k].type = "string"

\* What parseStringOrRecord returns: the string or a record.
StringArgument(input) ==
  [type |-> "string", text |-> input, record |-> << >>]

RecordArgument(object) ==
  [type |-> "record", text |-> << >>,
   record |-> [k \in DOMAIN object.members |-> object.members[k].text]]

\* parseStringOrRecord fulfilling its second attempt from the first one.
parseStringOrRecord_parseOnce(input) ==
  LET trimmedInput == Trim(input)
      asWritten == JSONparse(trimmedInput)
      replaced == JSONparse(withDoubleQuotes(trimmedInput))
      object == IF asWritten.ok THEN asWritten ELSE replaced
  IN  IF /\ trimmedInput # << >>
         /\ Head(trimmedInput) = "{"
         /\ trimmedInput[Len(trimmedInput)] = "}"
        THEN IF object.ok /\ allValuesAreStrings(object.value)
               THEN RecordArgument(object.value)
             ELSE StringArgument(input)
      ELSE StringArgument(input)

\* parseStringOrRecord(input). A SyntaxError of the first JSON.parse is
\* caught by the inner try statement, one of the second by the outer one.
parseStringOrRecord(input) ==
  LET trimmedInput == Trim(input)
      asWritten == JSONparse(trimmedInput)
      replaced == JSONparse(withDoubleQuotes(trimmedInput))
  IN  IF /\ trimmedInput # << >>
         /\ Head(trimmedInput) = "{"
         /\ trimmedInput[Len(trimmedInput)] = "}"
        THEN IF asWritten.ok /\ allValuesAreStrings(asWritten.value)
               THEN RecordArgument(asWritten.value)
             ELSE IF ~replaced.ok THEN StringArgument(input)
             ELSE IF allValuesAreStrings(replaced.value)
               THEN RecordArgument(replaced.value)
             ELSE StringArgument(input)
      ELSE StringArgument(input)

\* An argument is about to be object.
ParseInit ==
  /\ config = [exists |-> FALSE, parses |-> FALSE, plugins |-> Undefined]
  /\ pc = "idle"
  /\ call \in {[op |-> "parseStringOrRecord", input |-> input] :
                 input \in Arguments}
  /\ returned = FALSE
  /\ out = << >>
  /\ executed = << >>
  /\ fnRuns = 0
  /\ pluginPromise = NoPromise
  /\ epPromise = NoPromise
  /\ fnPromise = NoPromise
  /\ GraphOff
  /\ apiResult = NoResult

\* parseStringOrRecord(call.input) runs and returns.
ParseArgument ==
  /\ pc = "idle"
  /\ call.op = "parseStringOrRecord"
  /\ pc' = "done"
  /\ returned' = TRUE
  /\ apiResult' = [threw |-> FALSE, err |-> NoError,
                   value |-> parseStringOrRecord(call.input)]
  /\ UNCHANGED <<config, call, out, executed, fnRuns, pluginPromise,
                 epPromise, fnPromise>>
  /\ UNCHANGED graphVars

ParseSpec ==
  ParseInit /\ [][ParseArgument]_vars

\* ------------------------------------------------------------------------
\* Properties of parseStringOrRecord
\* ------------------------------------------------------------------------
ArgumentParsed ==
  /\ call.op = "parseStringOrRecord"
  /\ pc = "done"

ReturnedUnchanged ==
  apiResult.value = StringArgument(call.input)

ReturnedRecord ==
  /\ apiResult.value.type = "record"
  /\ \A k \in DOMAIN apiResult.value.record :
       apiResult.value.record[k] \in Seq(ArgumentChars)

\* The trimmed argument starts with an opening and ends with a closing
\* brace.
InBraces ==
  /\ Trim(call.input) # << >>
  /\ Head(Trim(call.input)) = "{"
  /\ Trim(call.input)[Len(Trim(call.input))] = "}"

\* JSON.parse of the trimmed argument returns an object.
ObjectAsWritten ==
  /\ JSONparse(Trim(call.input)).ok
  /\ JSONparse(Trim(call.input)).value.type = "object"

\* JSON.parse of the trimmed argument with double quotes returns an
\* object.
ObjectAfterReplacement ==
  /\ JSONparse(withDoubleQuotes(Trim(call.input))).ok
  /\ JSONparse(withDoubleQuotes(Trim(call.input))).value.type = "object"

\* C30: parseStringOrRecord returns for every argument, and what it
\* returns is the argument itself, untrimmed, or a record of strings; it is
\* the argument whenever the trimmed argument is not in braces, whenever
\* neither the argument as written nor the one with double quotes parses
\* as a JSON object, and whenever the object object from it has a value
\* that is not a string.
C30_ParseStringOrRecordTotal ==
  ArgumentParsed =>
    /\ ~apiResult.threw
    /\ ReturnedUnchanged \/ ReturnedRecord
    /\ ~InBraces => ReturnedUnchanged
    /\ ~ObjectAsWritten /\ ~ObjectAfterReplacement => ReturnedUnchanged
    /\ /\ ObjectAsWritten
       /\ ~allValuesAreStrings(JSONparse(Trim(call.input)).value)
       => ReturnedUnchanged
    /\ /\ ~ObjectAsWritten
       /\ ObjectAfterReplacement
       /\ ~allValuesAreStrings(
             JSONparse(withDoubleQuotes(Trim(call.input))).value)
       => ReturnedUnchanged

\* ------------------------------------------------------------------------
\* Properties of api.getProjectData()
\* ------------------------------------------------------------------------
\* api.getProjectData() was called and returned.
ProjectDataReturned ==
  /\ call.op = "getProjectData"
  /\ ~apiResult.threw

\* The entries of the call, in the order of their declaration.
DataEntries ==
  getEntryFromCliOrConfig(call.entryFile, FALSE, call.disk).entries

\* The files reachable from an entry file in the project of the call.
FilesOfEntry(entryFile) ==
  VisitedFiles(init(entryFile, call.disk).projectInfo)

\* C28: api.getProjectData() returns the data of the first entry point in
\* declaration order: its keys are the files reachable from that entry,
\* each with its own module, tags and import statements, and no file that
\* only another entry point reaches has a key. api.verify() records the
\* violating files of every entry point.
C28_ProjectDataOfFirstEntry ==
  /\ ProjectDataReturned =>
       /\ DataEntries # << >>
       /\ DOMAIN apiResult.value = FilesOfEntry(DataEntries[1].entry)
       /\ \A fsPath \in DOMAIN apiResult.value :
            /\ apiResult.value[fsPath].module = ProjectLayout[fsPath].module
            /\ apiResult.value[fsPath].tags = ProjectLayout[fsPath].tags
            /\ \A import \in Range(apiResult.value[fsPath].imports) :
                 \E k \in Range(call.disk.imports[fsPath]) :
                   import = ImportCatalogue[k]
       /\ \A e \in DOMAIN DataEntries :
            \A fsPath \in FilesOfEntry(DataEntries[e].entry) :
              fsPath \notin FilesOfEntry(DataEntries[1].entry)
                => fsPath \notin DOMAIN apiResult.value
  /\ VerifyReturned =>
       \A e \in DOMAIN VerifiedEntries :
         \A fsPath \in VisitedFiles(VerifiedEntries[e].entry) :
           FileHasViolation(fsPath, VerifiedEntries[e].entry)
             => fsPath \in DOMAIN apiResult.value.violations

\* The second of two entry points reaches a file the first does not reach,
\* and the data holds the files of the first only.
C28_Witness ==
  /\ ProjectDataReturned
  /\ Len(DataEntries) > 1
  /\ FilesOfEntry(DataEntries[2].entry)
       \ FilesOfEntry(DataEntries[1].entry) # {}
  /\ DOMAIN apiResult.value = FilesOfEntry(DataEntries[1].entry)

\* ------------------------------------------------------------------------
\* Properties of imports that do not resolve
\* ------------------------------------------------------------------------
\* The statements of a file whose specifier maps to no file.
UnresolvedStatements(disk, fsPath) ==
  {k \in Range(disk.imports[fsPath]) :
     ImportCatalogue[k].kind = "unresolved"}

\* The working directory with those statements deleted from every file.
WithoutUnresolved(disk) ==
  [disk EXCEPT
     !.imports =
       [fsPath \in DOMAIN @ |->
          SelectSeq(@[fsPath],
                    LAMBDA k : ImportCatalogue[k].kind # "unresolved")]]

\* A file reachable from an entry of the call has such a statement.
AnalysedUnresolved ==
  /\ call.op \in {"verify", "getProjectData", "export"}
  /\ LET entries ==
           getEntryFromCliOrConfig(
             IF call.op # "export" THEN call.entryFile
             ELSE IF call.args = << >> THEN UndefinedEntry
             ELSE call.args[1],
             FALSE, call.disk).entries
     IN  \E e \in DOMAIN entries :
           \E fsPath \in VisitedFiles(
                           init(entries[e].entry, call.disk).projectInfo) :
             UnresolvedStatements(call.disk, fsPath) # {}

\* The data of a file names each of its unresolved statements as
\* unresolved.
ListsUnresolved(entry, disk, fsPath) ==
  \A k \in UnresolvedStatements(disk, fsPath) :
    \E i \in DOMAIN entry.imports :
      /\ entry.imports[i].rawImport = ImportCatalogue[k].rawImport
      /\ entry.imports[i].kind = "unresolved"

\* C21: an import that maps to no file changes nothing but the data of
\* the importing file. api.verify() throws or returns what it throws or
\* returns for the project without the import; api.getProjectData() and
\* the export command throw exactly when they do for that project, cover
\* the same files, and the data of every file lists each of its
\* unresolved imports as unresolved; no thrown error differs from the one
\* of the project without the import.
C21_UnresolvedImportTolerated ==
  /\ call.op = "verify" =>
       LET clean == verifyForPlugin(call.entryFile,
                                    WithoutUnresolved(call.disk))
       IN  /\ apiResult.threw = clean.threw
           /\ apiResult.err = clean.err
           /\ apiResult.value = clean.value
  /\ call.op = "getProjectData" =>
       LET clean == getProjectDataForPlugin(call.entryFile, call.options,
                                            WithoutUnresolved(call.disk))
       IN  /\ apiResult.threw = clean.threw
           /\ apiResult.err = clean.err
           /\ DOMAIN apiResult.value = DOMAIN clean.value
           /\ \A fsPath \in DOMAIN apiResult.value :
                ListsUnresolved(apiResult.value[fsPath], call.disk, fsPath)
  /\ call.op = "export" =>
       /\ apiResult.threw
            <=> \/ getEntryFromCliOrConfig(
                     IF call.args = << >> THEN UndefinedEntry
                     ELSE call.args[1], FALSE, call.disk).err # NoError
                \/ call.disk.initError # NoError
       /\ \A i \in DOMAIN out :
            /\ out[i].kind = "log"
            /\ \A k \in DOMAIN out[i].text :
                 ListsUnresolved(out[i].text[k], call.disk,
                                 out[i].text[k].path)

\* sheriff export src/main.ts without sheriff.config.ts, src/main.ts
\* importing my-module only: one log, with src/main.ts and its unresolved
\* import.
C21_Witness ==
  /\ call.op = "export"
  /\ ~call.disk.configExists
  /\ call.disk.imports[1] = <<6>>
  /\ AnalysedUnresolved
  /\ ~apiResult.threw
  /\ Len(out) = 1
  /\ Len(out[1].text) = 1
  /\ out[1].text[1].path = 1
  /\ out[1].text[1].imports = <<ImportCatalogue[6]>>

====
